---------------------------- MODULE Spec2Model ----------------------------
(***************************************************************************)
(* A model of hppt, a minimal HTTP/1.1 file and CGI server.                *)
(*                                                                         *)
(* A byte is a one-character string; "CR", "LF" stand for \r and \n and    *)
(* "xFF" for the byte 0xFF (never valid in UTF-8), "uFFFD" for the         *)
(* replacement character.  A byte string is a sequence of bytes.           *)
(*                                                                         *)
(* Each connection task runs handle_request (server.rs): it reads the      *)
(* client's bytes into its own buffer until the buffer is full or the      *)
(* client has closed its sending side, parses the bytes read               *)
(* (request.rs), routes the request to a file (files.rs) or a CGI          *)
(* subprocess, and serializes the response (response.rs).                  *)
(***************************************************************************)
EXTENDS Integers, Sequences, FiniteSets, TLC

VARIABLES
    root_dir,    \* the configured root directory (a canonical absolute path)
    req,         \* req[c]: the request the client of connection c sends
    pc,          \* pc[c]: where connection task c is in handle_request
    buf_offset,  \* buf_offset[c]: bytes read so far into c's buffer
    error,       \* error[c]: the error recorded by the read loop, or "None"
    response,    \* response[c]: the Response built by routing
    out,         \* out[c]: the bytes written to the connection
    ret,         \* ret[c]: what handle_request returned
    resolved,    \* resolved[c]: what find_file_relative did for c
    spawned,     \* spawned[c]: what the CGI subprocess of c did
    from_bytes,  \* from_bytes[c]: the call of request.rs's from_bytes on c's reader
    lpc,         \* where the listener coroutine of run is
    shutdown,    \* the number of signals waiting in the shutdown channel
    backlog,     \* connection attempts waiting to be accepted
    verbose,     \* whether debug-level logging is enabled
    sender,      \* the sending half of the shutdown channel: "held" or "dropped"
    run_ret,     \* what run returned
    hist         \* history: what has happened so far, read by the properties only

\* The state of run: the listener, its channel and its socket.
run_vars == <<lpc, shutdown, backlog, verbose, sender, run_ret, hist>>

vars ==
    <<root_dir, req, pc, buf_offset, error, response, out, ret, resolved, spawned,
      from_bytes, run_vars>>

\* ------------------------------------------------------------------------
\* Bounds of the model and constants of the program
\* ------------------------------------------------------------------------

\* Connection tasks in flight at once.
MaxConns == 2

\* Size in bytes of the large static file.
BigFileLen == 120

\* The most bytes one read delivers short of everything that is available;
\* the most bytes a failing write has put on the wire.
MaxChunk == 3

\* const BUF_SIZE: usize = 1024
BUF_SIZE == 1024

Conns == 1..MaxConns

\* ------------------------------------------------------------------------
\* Byte strings
\* ------------------------------------------------------------------------

Min(a, b) == IF a < b THEN a ELSE b

StartsWith(s, p) == Len(s) >= Len(p) /\ SubSeq(s, 1, Len(p)) = p

\* The positions of the byte sep in s.
SepPos(s, sep) == {i \in 1..Len(s) : s[i] = sep}

\* slice::split / str::split: the pieces of s between occurrences of sep; an
\* empty s gives one empty piece.
Split(s, sep) ==
    LET P == SepPos(s, sep)
        n == Cardinality(P)
        Nth(k) == CHOOSE i \in P : Cardinality({j \in P : j < i}) = k - 1
        First(k) == IF k = 1 THEN 1 ELSE Nth(k - 1) + 1
        Last(k) == IF k = n + 1 THEN Len(s) ELSE Nth(k) - 1
    IN  [k \in 1..(n + 1) |-> SubSeq(s, First(k), Last(k))]

\* str::rfind: the position of the last occurrence of ch, 0 when there is none.
RFind(s, ch) ==
    IF SepPos(s, ch) = {} THEN 0
    ELSE CHOOSE i \in SepPos(s, ch) : \A j \in SepPos(s, ch) : j <= i

RECURSIVE Concat(_)
Concat(ss) == IF ss = <<>> THEN <<>> ELSE Head(ss) \o Concat(Tail(ss))

Digit(d) == <<"0", "1", "2", "3", "4", "5", "6", "7", "8", "9">>[d + 1]

\* format!("{}", n) of a usize: its decimal digits.
RECURSIVE Dec(_)
Dec(n) == IF n < 10 THEN <<Digit(n)>> ELSE Dec(n \div 10) \o <<Digit(n % 10)>>

None == [some |-> FALSE, v |-> <<>>]
Some(x) == [some |-> TRUE, v |-> x]

\* ------------------------------------------------------------------------
\* request.rs: Method, Version, Request::from_bytes
\* ------------------------------------------------------------------------

b_OPTIONS == <<"O", "P", "T", "I", "O", "N", "S">>
b_GET == <<"G", "E", "T">>
b_HEAD == <<"H", "E", "A", "D">>
b_POST == <<"P", "O", "S", "T">>
b_PUT == <<"P", "U", "T">>
b_DELETE == <<"D", "E", "L", "E", "T", "E">>
b_TRACE == <<"T", "R", "A", "C", "E">>
b_CONNECT == <<"C", "O", "N", "N", "E", "C", "T">>
b_HTTP11 == <<"H", "T", "T", "P", "/", "1", ".", "1">>

\* Method::from_bytes
MethodFromBytes(method) ==
    CASE method = b_OPTIONS -> "Options"
      [] method = b_GET -> "Get"
      [] method = b_HEAD -> "Head"
      [] method = b_POST -> "Post"
      [] method = b_PUT -> "Put"
      [] method = b_DELETE -> "Delete"
      [] method = b_TRACE -> "Trace"
      [] method = b_CONNECT -> "Connect"
      [] OTHER -> "Err"

\* A plausible slip: the version match accepts any HTTP/1.x literal.
VersionFromBytes_AnyMinor(version) ==
    IF Len(version) = 8 /\ SubSeq(version, 1, 7) = SubSeq(b_HTTP11, 1, 7)
    THEN "OneDotOne" ELSE "UnsupportedHttpVersion"

\* Version::from_bytes
VersionFromBytes(version) ==
    IF version = b_HTTP11 THEN "OneDotOne" ELSE "UnsupportedHttpVersion"

\* std::str::from_utf8 succeeds
ValidUtf8(s) == \A i \in 1..Len(s) : s[i] # "xFF"

\* String::from_utf8_lossy
FromUtf8Lossy(s) == [i \in 1..Len(s) |-> IF s[i] = "xFF" THEN "uFFFD" ELSE s[i]]

\* The closure mapped over the lines: a trailing \r is trimmed.
TrimLine(l) ==
    IF Len(l) = 0 THEN l
    ELSE IF l[Len(l)] = "CR" THEN SubSeq(l, 1, Len(l) - 1)
    ELSE l

\* The closure's side effect on body_start for one line it is applied to.
LineAdvance(l) == IF Len(l) = 0 THEN 0 ELSE Len(l) + 1

\* The target split on `?`: halves.next() is the URI, halves.next() the query,
\* absent when empty; further pieces are not read.
SplitQuery(u) ==
    LET halves == Split(u, "?")
    IN  [uri |-> halves[1],
         query |-> IF Len(halves) >= 2 /\ Len(halves[2]) > 0
                   THEN Some(halves[2]) ELSE None]

NoRequest ==
    [method |-> "Err", uri |-> <<>>, query |-> None, version |-> "Err",
     header_lines |-> <<>>, body |-> <<>>]

Continue == [kind |-> "Continue", err |-> "None", request |-> NoRequest]
Failed(e) == [kind |-> "Err", err |-> e, request |-> NoRequest]
Panicked == [kind |-> "Panic", err |-> "None", request |-> NoRequest]
Parsed(r) == [kind |-> "Ok", err |-> "None", request |-> r]

\* A call of from_bytes that has not read yet: bytes_read is the count its
\* last read returned (-1 when there is none: no read yet, or a failed one),
\* result what the call returned (Continue while it loops).
NoCall == [bytes_read |-> -1, result |-> Continue]

\* One pass of the loop body over the bytes read so far (buf[..buf_offset]):
\* Continue is the `continue` of the loop, Panicked the out-of-range body
\* slice &buf[body_start..buf_offset].
ParseWindow(bytes) ==
    LET raw == Split(bytes, "LF")
        request_line == TrimLine(raw[1])
        tokens == Split(request_line, " ")
        method == MethodFromBytes(tokens[1])
        u0 == tokens[2]
        u == IF u0[1] = "/" THEN SubSeq(u0, 2, Len(u0)) ELSE u0
        halves == SplitQuery(u)
        version == VersionFromBytes(tokens[3])
        \* take_while stops at (and consumes) the first empty trimmed line
        Empties == {k \in 2..Len(raw) : Len(TrimLine(raw[k])) = 0}
        stop == IF Empties = {} THEN Len(raw) + 1
                ELSE CHOOSE k \in Empties : \A j \in Empties : k <= j
        consumed == 1..Min(stop, Len(raw))
        RECURSIVE Sum(_)
        Sum(k) == IF k = 0 THEN 0
                  ELSE Sum(k - 1) + (IF k \in consumed THEN LineAdvance(raw[k]) ELSE 0)
        body_start == Sum(Len(raw))
        headers == [k \in 1..(stop - 2) |-> FromUtf8Lossy(TrimLine(raw[k + 1]))]
    IN  IF method = "Err" THEN Continue
        ELSE IF Len(tokens) < 2 THEN Continue
        ELSE IF Len(u0) = 0 THEN Failed("Parsing")
        ELSE IF ~ValidUtf8(u) THEN Continue
        ELSE IF Len(tokens) < 3 THEN Continue
        ELSE IF version # "OneDotOne" THEN Failed("UnsupportedHttpVersion")
        ELSE IF body_start > Len(bytes) THEN Panicked
        ELSE Parsed([method |-> method, uri |-> halves.uri, query |-> halves.query,
                     version |-> version, header_lines |-> headers,
                     body |-> SubSeq(bytes, body_start + 1, Len(bytes))])

\* Request::from_bytes with the reader being the in-memory slice
\* buf[..buf_offset] that handle_request passes: a read from a slice delivers
\* all the bytes that are left and fit, and 0 once it is exhausted.
RECURSIVE FromBytesLoop(_, _)
FromBytesLoop(data, offset) ==
    LET bytes_read == Min(Len(data) - offset, BUF_SIZE - offset)
        new_offset == offset + bytes_read
        r == ParseWindow(SubSeq(data, 1, new_offset))
    IN  IF new_offset = BUF_SIZE THEN Failed("RequestTooLarge")
        ELSE IF bytes_read = 0 THEN Failed("BadRequest")
        ELSE IF r.kind = "Continue" THEN FromBytesLoop(data, new_offset)
        ELSE r

FromBytes(data) == FromBytesLoop(data, 0)

\* ------------------------------------------------------------------------
\* The file system the server runs on (unchanged while it runs)
\* ------------------------------------------------------------------------

n_etc == <<"e", "t", "c">>
n_passwd == <<"p", "a", "s", "s", "w", "d">>
n_srv == <<"s", "r", "v">>
n_pub == <<"p", "u", "b">>
n_cgi_bin == <<"c", "g", "i", "-", "b", "i", "n">>
n_a_txt == <<"a", ".", "t", "x", "t">>
n_x_html == <<"x", ".", "h", "t", "m", "l">>
n_noext == <<"n", "o", "e", "x", "t">>
n_big_bin == <<"b", "i", "g", ".", "b", "i", "n">>
n_b_md == <<"b", ".", "m", "d">>
n_link == <<"l", "i", "n", "k">>
n_ok_sh == <<"o", "k", ".", "s", "h">>
n_fail_sh == <<"f", "a", "i", "l", ".", "s", "h">>
n_data == <<"d", "a", "t", "a">>
n_secret == <<"s", "e", "c", "r", "e", "t", ".", "t", "x", "t">>

\* A canonical absolute path is the sequence of its component names.
Dirs == {<<>>, <<n_etc>>, <<n_srv>>, <<n_srv, n_pub>>, <<n_srv, n_cgi_bin>>}

RegularFiles ==
    {<<n_etc, n_passwd>>, <<n_srv, n_a_txt>>, <<n_srv, n_x_html>>, <<n_srv, n_noext>>,
     <<n_srv, n_big_bin>>, <<n_srv, n_pub, n_b_md>>, <<n_srv, n_cgi_bin, n_ok_sh>>,
     <<n_srv, n_cgi_bin, n_fail_sh>>, <<n_srv, n_cgi_bin, n_data>>, <<n_srv, n_secret>>}

\* /srv/secret.txt has mode 000: it exists and is a file, and File::open on
\* it fails.
Unreadable == {<<n_srv, n_secret>>}

\* /srv/link is a symbolic link to /etc/passwd.
IsSymlink(p) == p = <<n_srv, n_link>>
LinkTarget(p) == <<n_etc, n_passwd>>

Executables == {<<n_srv, n_cgi_bin, n_ok_sh>>, <<n_srv, n_cgi_bin, n_fail_sh>>}

FileContent(p) ==
    CASE p = <<n_etc, n_passwd>> -> <<"r", "o", "o", "t", ":", "x", ":", "0", ":", "0", "LF">>
      [] p = <<n_srv, n_a_txt>> -> <<"h", "i", "LF">>
      [] p = <<n_srv, n_x_html>> -> <<"<", "p", ">", "h", "e", "l", "l", "o", "<", "/", "p", ">", "LF">>
      [] p = <<n_srv, n_noext>> -> <<>>
      [] p = <<n_srv, n_big_bin>> -> [i \in 1..BigFileLen |-> "z"]
      [] p = <<n_srv, n_pub, n_b_md>> -> <<"#", " ", "b", "LF">>
      [] OTHER -> <<"#", "!", "/", "b", "i", "n", "/", "s", "h", "LF">>

\* The directories a server may be configured to serve.
Roots == {<<n_srv>>, <<n_srv, n_pub>>}

\* ------------------------------------------------------------------------
\* std::path and files.rs: find_file_relative
\* ------------------------------------------------------------------------

\* Path::new(s).components(): empty pieces (repeated separators) and `.` are
\* skipped, `..` is kept; a leading `/` makes the path absolute.
PathOf(s) ==
    [abs |-> Len(s) > 0 /\ s[1] = "/",
     comps |-> SelectSeq(Split(s, "/"), LAMBDA x : x # <<>> /\ x # <<".">>)]

\* Path::join: an absolute path replaces the root, a relative one is appended.
PathJoin(root, p) ==
    IF p.abs THEN [abs |-> TRUE, comps |-> p.comps]
    ELSE [abs |-> TRUE, comps |-> root \o p.comps]

\* Path::canonicalize (realpath) of an absolute path: ok is FALSE when a
\* component does not exist or a regular file is used as a directory.
RECURSIVE Walk(_, _)
Walk(cur, rest) ==
    IF rest = <<>> THEN [ok |-> TRUE, path |-> cur]
    ELSE LET x == Head(rest)
             next == cur \o <<x>>
         IN  IF cur \in RegularFiles THEN [ok |-> FALSE, path |-> <<>>]
             ELSE IF x = <<".", ".">>
                  THEN Walk(IF cur = <<>> THEN cur ELSE SubSeq(cur, 1, Len(cur) - 1), Tail(rest))
             ELSE IF IsSymlink(next) THEN Walk(LinkTarget(next), Tail(rest))
             ELSE IF next \in Dirs \cup RegularFiles THEN Walk(next, Tail(rest))
             ELSE [ok |-> FALSE, path |-> <<>>]

Canonicalize(full) == Walk(<<>>, full.comps)

NotFound == [some |-> FALSE, path |-> <<>>]

\* A plausible slip: the exists()/is_file() test is left out, so a directory
\* is opened like a file.
FindFileRelative_SkipsFileCheck(root, uri) ==
    LET full_path == PathJoin(root, PathOf(uri))
        canonical == Canonicalize(full_path)
    IN  IF ~canonical.ok THEN NotFound
        ELSE IF canonical.path # full_path.comps THEN NotFound
        ELSE IF canonical.path \notin Unreadable
             THEN [some |-> TRUE, path |-> canonical.path]
             ELSE NotFound

\* find_file_relative(root_dir, uri). The result carries the path of the
\* opened file; a file that cannot be opened is reported as absent.
FindFileRelative(root, uri) ==
    LET full_path == PathJoin(root, PathOf(uri))
        canonical == Canonicalize(full_path)
    IN  IF ~canonical.ok THEN NotFound
        ELSE IF canonical.path # full_path.comps THEN NotFound
        ELSE IF canonical.path \in RegularFiles
             THEN (IF canonical.path \notin Unreadable
                   THEN [some |-> TRUE, path |-> canonical.path]
                   ELSE NotFound)
        ELSE NotFound

\* ------------------------------------------------------------------------
\* response.rs: Status, ContentType, Response::send
\* ------------------------------------------------------------------------

\* Response::status_line
StatusLine(status) ==
    CASE status = "Ok" ->
           <<"H", "T", "T", "P", "/", "1", ".", "1", " ", "2", "0", "0", " ", "O", "K", "CR", "LF">>
      [] status = "BadRequest" ->
           <<"H", "T", "T", "P", "/", "1", ".", "1", " ", "4", "0", "0", " ", "B", "a", "d", " ",
             "R", "e", "q", "u", "e", "s", "t", "CR", "LF">>
      [] status = "NotFound" ->
           <<"H", "T", "T", "P", "/", "1", ".", "1", " ", "4", "0", "4", " ", "N", "o", "t", " ",
             "F", "o", "u", "n", "d", "CR", "LF">>
      [] status = "RequestEntityTooLarge" ->
           <<"H", "T", "T", "P", "/", "1", ".", "1", " ", "4", "1", "3", " ", "R", "e", "q", "u",
             "e", "s", "t", " ", "E", "n", "t", "i", "t", "y", " ", "T", "o", "o", " ", "L", "a",
             "r", "g", "e", "CR", "LF">>
      [] status = "InternalServerError" ->
           <<"H", "T", "T", "P", "/", "1", ".", "1", " ", "5", "0", "0", " ", "I", "n", "t", "e",
             "r", "n", "a", "l", " ", "S", "e", "r", "v", "e", "r", " ", "E", "r", "r", "o", "r",
             "CR", "LF">>
      [] status = "NotImplemented" ->
           <<"H", "T", "T", "P", "/", "1", ".", "1", " ", "5", "0", "1", " ", "N", "o", "t", " ",
             "I", "m", "p", "l", "e", "m", "e", "n", "t", "e", "d", "CR", "LF">>
      [] status = "HttpVersionNotSupported" ->
           <<"H", "T", "T", "P", "/", "1", ".", "1", " ", "5", "0", "5", " ", "H", "T", "T", "P",
             " ", "V", "e", "r", "s", "i", "o", "n", " ", "n", "o", "t", " ", "s", "u", "p", "p",
             "o", "r", "t", "e", "d", "CR", "LF">>

Statuses ==
    {"Ok", "BadRequest", "NotFound", "RequestEntityTooLarge", "InternalServerError",
     "NotImplemented", "HttpVersionNotSupported"}

\* A plausible slip: the text/plain rows are missing from the table.
ContentTypeFromPath_NoText(path) ==
    LET extension_offset == RFind(path, ".")
        extension == SubSeq(path, extension_offset + 1, Len(path))
    IN  IF extension_offset = 0 THEN "Binary"
        ELSE CASE extension = <<"h", "t", "m">> -> "Html"
               [] extension = <<"h", "t", "m", "l">> -> "Html"
               [] extension = <<"m", "d">> -> "Markdown"
               [] extension = <<"p", "d", "f">> -> "Pdf"
               [] OTHER -> "Binary"

\* ContentType::from_path
ContentTypeFromPath(path) ==
    LET extension_offset == RFind(path, ".")
        extension == SubSeq(path, extension_offset + 1, Len(path))
    IN  IF extension_offset = 0 THEN "Binary"
        ELSE CASE extension = <<"h", "t", "m">> -> "Html"
               [] extension = <<"h", "t", "m", "l">> -> "Html"
               [] extension = <<"t", "o", "m", "l">> -> "Text"
               [] extension = <<"t", "x", "t">> -> "Text"
               [] extension = <<"m", "d">> -> "Markdown"
               [] extension = <<"p", "d", "f">> -> "Pdf"
               [] OTHER -> "Binary"

\* ContentType::as_bytes
ContentTypeBytes(ct) ==
    CASE ct = "Html" -> <<"t", "e", "x", "t", "/", "h", "t", "m", "l">>
      [] ct = "Text" -> <<"t", "e", "x", "t", "/", "p", "l", "a", "i", "n">>
      [] ct = "Pdf" -> <<"a", "p", "p", "l", "i", "c", "a", "t", "i", "o", "n", "/", "p", "d", "f">>
      [] ct = "Markdown" -> <<"t", "e", "x", "t", "/", "m", "a", "r", "k", "d", "o", "w", "n">>
      [] ct = "Binary" ->
           <<"a", "p", "p", "l", "i", "c", "a", "t", "i", "o", "n", "/", "o", "c", "t", "e", "t",
             "-", "s", "t", "r", "e", "a", "m">>

ContentTypes == {"Html", "Text", "Pdf", "Markdown", "Binary"}

h_ContentLength == <<"C", "o", "n", "t", "e", "n", "t", "-", "L", "e", "n", "g", "t", "h", ":", " ">>
h_ContentType == <<"C", "o", "n", "t", "e", "n", "t", "-", "T", "y", "p", "e", ":", " ">>
CRLF == <<"CR", "LF">>

\* A body stream: none, a file (whose read may fail) or an in-memory cursor.
NoBody == [some |-> FALSE, kind |-> "none", bytes |-> <<>>]
FileBody(path) == [some |-> TRUE, kind |-> "file", bytes |-> FileContent(path)]
CursorBody(b) == [some |-> TRUE, kind |-> "cursor", bytes |-> b]

\* Response::new(status, body, content_type, own_headers); content_type is
\* "None" when absent.
NewResponse(status, body, content_type, own_headers) ==
    [status |-> status, body |-> body, content_type |-> content_type,
     own_headers |-> own_headers]

\* A plausible slip: the length written counts the blank line as well.
SendGeneral_CountsBlankLine(status, content_buf, content_type) ==
    StatusLine(status) \o h_ContentLength \o Dec(Len(content_buf) + 2) \o CRLF
      \o (IF content_type # "None"
          THEN h_ContentType \o ContentTypeBytes(content_type) \o CRLF ELSE <<>>)
      \o CRLF \o content_buf

\* A plausible slip: the content type is written before the length.
SendGeneral_TypeFirst(status, content_buf, content_type) ==
    StatusLine(status)
      \o (IF content_type # "None"
          THEN h_ContentType \o ContentTypeBytes(content_type) \o CRLF ELSE <<>>)
      \o h_ContentLength \o Dec(Len(content_buf)) \o CRLF
      \o CRLF \o content_buf

\* The bytes Response::send assembles for ResponseType::General, content_buf
\* being the body stream read to its end (empty when there is no stream).
SendGeneral(status, content_buf, content_type) ==
    StatusLine(status) \o h_ContentLength \o Dec(Len(content_buf)) \o CRLF
      \o (IF content_type # "None"
          THEN h_ContentType \o ContentTypeBytes(content_type) \o CRLF ELSE <<>>)
      \o CRLF \o content_buf

\* The bytes sent for a response whose body carries its own headers: the
\* status line, then the body as it is.
SendOwnHeaders(status, content_buf) == StatusLine(status) \o content_buf

\* The message Response::send writes for a response.
Message(r) ==
    IF r.own_headers THEN SendOwnHeaders(r.status, r.body.bytes)
    ELSE SendGeneral(r.status, r.body.bytes, r.content_type)

\* ------------------------------------------------------------------------
\* The requests clients send
\* ------------------------------------------------------------------------

b_HTTP10 == <<"H", "T", "T", "P", "/", "1", ".", "0">>

\* A request is its space-separated tokens followed by a tail.
RECURSIVE JoinSp(_)
JoinSp(toks) ==
    IF toks = <<>> THEN <<>>
    ELSE IF Len(toks) = 1 THEN toks[1]
    ELSE toks[1] \o <<" ">> \o JoinSp(Tail(toks))

ReqBytes(r) == JoinSp(r.toks) \o r.tail

Req(toks, tail) == [toks |-> toks, tail |-> tail]

ValidMethodTokens ==
    {b_OPTIONS, b_GET, b_HEAD, b_POST, b_PUT, b_DELETE, b_TRACE, b_CONNECT}

NonGetMethodTokens == ValidMethodTokens \ {b_GET}

MethodTokens == ValidMethodTokens \cup {<<"H", "R", "Y">>, <<"g", "e", "t">>, <<>>}

t_a_txt == <<"/", "a", ".", "t", "x", "t">>
t_x_html == <<"/", "x", ".", "h", "t", "m", "l">>
t_missing == <<"/", "m", "i", "s", "s", "i", "n", "g">>
t_abs_passwd == <<"/", "/", "e", "t", "c", "/", "p", "a", "s", "s", "w", "d">>
t_cgi_ok_q == <<"/", "c", "g", "i", "-", "b", "i", "n", "/", "o", "k", ".", "s", "h", "?", "n", "=", "5">>
t_bad_utf8 == <<"/", "a", "xFF">>
t_long == [i \in 1..(BUF_SIZE + 1) |-> IF i = 1 THEN "/" ELSE "a"]

Targets ==
    {<<"/">>, t_a_txt, t_x_html, t_missing, t_abs_passwd, t_cgi_ok_q, t_bad_utf8,
     <<"/", "n", "o", "e", "x", "t">>,
     <<"/", "s", "e", "c", "r", "e", "t", ".", "t", "x", "t">>,
     <<"/", "b", "i", "g", ".", "b", "i", "n">>,
     <<"/", "b", ".", "m", "d">>,
     <<"/", "p", "u", "b", "/", "b", ".", "m", "d">>,
     <<"/", "p", "u", "b">>,
     <<"/", ".", ".", "/", "e", "t", "c", "/", "p", "a", "s", "s", "w", "d">>,
     <<"/", ".", ".", "/", ".", ".", "/", "e", "t", "c", "/", "p", "a", "s", "s", "w", "d">>,
     <<"/", ".", ".", "/", "a", ".", "t", "x", "t">>,
     <<"/", "/", "s", "r", "v", "/", "a", ".", "t", "x", "t">>,
     <<"/", "p", "u", "b", "/", ".", ".", "/", "a", ".", "t", "x", "t">>,
     <<"/", ".", "/", "a", ".", "t", "x", "t">>,
     <<"/", "l", "i", "n", "k">>,
     <<"a", ".", "t", "x", "t">>,
     <<"/", "c", "g", "i", "-", "b", "i", "n", "/", "o", "k", ".", "s", "h">>,
     <<"/", "c", "g", "i", "-", "b", "i", "n", "/", "f", "a", "i", "l", ".", "s", "h">>,
     <<"/", "c", "g", "i", "-", "b", "i", "n", "/", "d", "a", "t", "a">>,
     <<"/", "c", "g", "i", "-", "b", "i", "n">>,
     <<"/", "a", ".", "t", "x", "t", "?">>,
     <<"/", "a", ".", "t", "x", "t", "?", "k", "=", "v">>,
     <<"/", "a", ".", "t", "x", "t", "?", "?", "x">>,
     <<"/", "a", ".", "t", "x", "t", "?", "k", "?", "v">>,
     <<"?", "x">>}

tail_hdr_body == <<"CR", "LF", "H", ":", " ", "v", "CR", "LF", "CR", "LF", "k", "=", "1">>

\* Tails in which every line is terminated.
TerminatedTails ==
    {CRLF, <<"LF">>, CRLF \o CRLF, tail_hdr_body,
     <<"LF", "H", ":", " ", "v", "LF", "LF", "k", "=", "1">>,
     <<"CR", "LF", "H", ":", " ", "xFF", "CR", "LF", "CR", "LF">>}

Tails == TerminatedTails \cup {<<>>, <<"CR", "LF", "H", ":", " ", "v">>}

MainRequests == {Req(<<m, t, b_HTTP11>>, CRLF) : m \in MethodTokens, t \in Targets}

VersionRequests ==
    {Req(<<m, t, v>>, tail) :
        m \in {b_GET, b_PUT, <<"H", "R", "Y">>},
        t \in {t_a_txt, t_bad_utf8, t_cgi_ok_q, <<>>},
        v \in {b_HTTP10, <<>>, <<"H", "T", "T", "P">>},
        tail \in {CRLF, <<>>, tail_hdr_body}}

TailRequests ==
    {Req(<<m, t, b_HTTP11>>, tail) :
        m \in {b_GET, b_POST}, t \in {t_a_txt, t_cgi_ok_q, t_missing}, tail \in Tails}

OddRequests ==
    {Req(<<>>, <<>>), Req(<<>>, CRLF \o CRLF), Req(<<b_GET>>, CRLF),
     Req(<<b_GET, t_a_txt>>, CRLF), Req(<<b_GET, b_HTTP11>>, CRLF \o CRLF),
     Req(<<b_GET, t_a_txt, b_HTTP11, <<"x">>>>, CRLF),
     Req(<<b_GET, t_a_txt, b_HTTP10, <<"x">>>>, CRLF)}

\* A complete GET of /a.txt with a body that brings it to n bytes.
FittingRequest(n) ==
    LET head == JoinSp(<<b_GET, t_a_txt, b_HTTP11>>) \o CRLF \o CRLF
    IN  Req(<<b_GET, t_a_txt, b_HTTP11>>,
            CRLF \o CRLF \o [i \in 1..(n - Len(head)) |-> "x"])

\* Requests of at least BUF_SIZE bytes.
LongRequests ==
    {Req(<<b_GET, t_long, b_HTTP11>>, CRLF),
     Req(<<b_PUT, t_long, b_HTTP11>>, CRLF \o CRLF),
     Req(<<[i \in 1..BUF_SIZE |-> "a"]>>, <<>>),
     Req(<<b_GET, t_a_txt, b_HTTP10>>, CRLF \o [i \in 1..BUF_SIZE |-> "x"] \o CRLF \o CRLF),
     FittingRequest(BUF_SIZE)}

Requests ==
    MainRequests \cup VersionRequests \cup TailRequests \cup OddRequests \cup LongRequests
      \cup {FittingRequest(BUF_SIZE - 1)}

\* The GETs of the connections that run side by side.
ConcGets ==
    {Req(<<b_GET, t_a_txt, b_HTTP11>>, <<"LF">>), Req(<<b_GET, t_x_html, b_HTTP11>>, <<"LF">>)}

\* What one of them may send instead: a POST, another version, a request
\* line without its terminator.
ConcRequests ==
    ConcGets \cup
    {Req(<<b_POST, t_a_txt, b_HTTP11>>, <<"LF">>),
     Req(<<b_GET, t_a_txt, b_HTTP10>>, <<"LF">>),
     Req(<<b_GET, t_a_txt, b_HTTP11>>, <<>>)}

\* ------------------------------------------------------------------------
\* server.rs: handle_request, build_cgi_response, build_command
\* ------------------------------------------------------------------------

\* A plausible slip: the full-buffer test compares with `>`.
BufferFull_Greater(offset) == offset > BUF_SIZE

\* `buf_offset == buf.len()`
BufferFull(offset) == offset = BUF_SIZE

\* A plausible slip: HEAD is routed like GET.
IsGet_OrHead(method) == method \in {"Get", "Head"}

\* `req.method() == Method::Get`
IsGet(method) == method = "Get"

\* A plausible slip: the prefix is tested with the `/` the parser removed.
IsCgi_WithSlash(uri) == StartsWith(uri, <<"/">> \o n_cgi_bin)

\* `req.uri().starts_with("cgi-bin")`
IsCgi(uri) == StartsWith(uri, n_cgi_bin)

\* The status an error is answered with; BadRequest is what from_bytes gives
\* when the bytes run out before a request line is complete.
ErrorStatus(e) ==
    CASE e = "UnsupportedHttpVersion" -> "HttpVersionNotSupported"
      [] e = "Parsing" -> "BadRequest"
      [] e = "BadRequest" -> "BadRequest"
      [] e = "IoError" -> "InternalServerError"
      [] e = "RequestTooLarge" -> "RequestEntityTooLarge"

ErrorResponse(e) == NewResponse(ErrorStatus(e), NoBody, "None", FALSE)

\* build_command: the environment of the subprocess.
BuildCommand(request, exe_file) ==
    [exe |-> exe_file,
     GATEWAY_INTERFACE |-> "CGI/1.1",
     SERVER_PROTOCOL |-> "HTTP/1.1",
     REQUEST_METHOD |-> request.method,
     QUERY_STRING |-> request.query]

SpawnFailed == [spawned |-> FALSE, success |-> FALSE, stdout |-> <<>>]
Exited(success, stdout) == [spawned |-> TRUE, success |-> success, stdout |-> stdout]

cgi_headers ==
    <<"C", "o", "n", "t", "e", "n", "t", "-", "T", "y", "p", "e", ":", " ", "t", "e", "x", "t",
      "/", "p", "l", "a", "i", "n", "CR", "LF", "CR", "LF">>

\* What Command::output() can give for a command: a file that is not
\* executable cannot be spawned; ok.sh prints its query string and exits 0;
\* fail.sh exits non-zero, with or without output.
CgiOutcomes(cmd) ==
    IF cmd.exe \notin Executables THEN {SpawnFailed}
    ELSE IF cmd.exe = <<n_srv, n_cgi_bin, n_ok_sh>>
         THEN {Exited(TRUE, cgi_headers \o (IF cmd.QUERY_STRING.some THEN cmd.QUERY_STRING.v
                                             ELSE <<"h", "i">>))}
    ELSE {Exited(FALSE, cgi_headers \o <<"n", "o">>), Exited(FALSE, <<>>)}

\* A plausible slip: the CGI body is sent like a file, with the serializer's
\* own headers.
BuildCgiResponse_NoFlag(output) ==
    IF output.spawned
    THEN NewResponse(IF output.success THEN "Ok" ELSE "BadRequest",
                     CursorBody(output.stdout), "None", FALSE)
    ELSE NewResponse("BadRequest", NoBody, "None", FALSE)

\* A plausible slip: a failed script is answered without its output.
BuildCgiResponse_DropsOutput(output) ==
    IF output.spawned /\ output.success
    THEN NewResponse("Ok", CursorBody(output.stdout), "None", TRUE)
    ELSE NewResponse("BadRequest", NoBody, "None", FALSE)

\* build_cgi_response, given what Command::output() returned.
BuildCgiResponse(output) ==
    IF output.spawned
    THEN IF output.success
         THEN NewResponse("Ok", CursorBody(output.stdout), "None", TRUE)
         ELSE NewResponse("BadRequest", CursorBody(output.stdout), "None", TRUE)
    ELSE NewResponse("BadRequest", NoBody, "None", FALSE)

\* A plausible slip: the tasks read into one buffer, that of connection 1.
ConnBuf_Shared(c) == SubSeq(ReqBytes(req[1]), 1, buf_offset[1])

\* buf[..buf_offset] of connection c: the bytes of its request read so far.
ConnBuf(c) == SubSeq(ReqBytes(req[c]), 1, buf_offset[c])

NotResolved == [called |-> FALSE, found |-> NotFound]
NotSpawned == [called |-> FALSE, output |-> SpawnFailed]
NoResponse == NewResponse("None", NoBody, "None", FALSE)

\* The sizes a read into buf[buf_offset..] can return: 0 only once the client
\* has sent everything and closed its sending side (or into an empty slice).
ReadSizes(c) ==
    LET avail == Len(ReqBytes(req[c])) - buf_offset[c]
        most == Min(avail, BUF_SIZE - buf_offset[c])
    IN  IF most = 0 THEN {0}
        ELSE {k \in 1..most : k <= MaxChunk \/ k = most}

\* One iteration of the read loop.
Read(c) ==
    /\ pc[c] = "reading"
    /\ \E bytes_read \in ReadSizes(c) :
         LET offset == buf_offset[c] + bytes_read
         IN  /\ buf_offset' = [buf_offset EXCEPT ![c] = offset]
             /\ IF BufferFull(offset)
                THEN /\ error' = [error EXCEPT ![c] = "RequestTooLarge"]
                     /\ pc' = [pc EXCEPT ![c] = "routing"]
                ELSE /\ error' = error
                     /\ pc' = [pc EXCEPT ![c] = IF bytes_read = 0 THEN "routing" ELSE "reading"]
    /\ UNCHANGED <<root_dir, from_bytes, req, response, out, ret, resolved, spawned, run_vars>>

\* try!(connection.read(..)) fails: handle_request returns the error, and
\* the buffer, from which nothing was parsed, is dropped with its frame.
ReadError(c) ==
    /\ pc[c] = "reading"
    /\ pc' = [pc EXCEPT ![c] = "closed"]
    /\ ret' = [ret EXCEPT ![c] = "Err"]
    /\ buf_offset' = [buf_offset EXCEPT ![c] = 0]
    /\ UNCHANGED <<root_dir, from_bytes, req, error, response, out, resolved, spawned, run_vars>>

Respond(c, r) ==
    /\ response' = [response EXCEPT ![c] = r]
    /\ pc' = [pc EXCEPT ![c] = "sending"]
    /\ UNCHANGED <<root_dir, from_bytes, req, buf_offset, error, out, ret, run_vars>>

\* The read loop recorded an error.
RespondReadLoopError(c) ==
    /\ pc[c] = "routing"
    /\ error[c] # "None"
    /\ Respond(c, ErrorResponse(error[c]))
    /\ UNCHANGED <<resolved, spawned>>

\* Request::from_bytes fails.
RespondParseError(c) ==
    /\ pc[c] = "routing"
    /\ error[c] = "None"
    /\ FromBytes(ConnBuf(c)).kind = "Err"
    /\ Respond(c, ErrorResponse(FromBytes(ConnBuf(c)).err))
    /\ UNCHANGED <<resolved, spawned>>

\* Request::from_bytes panics on its body slice: the task ends there.
ParsePanic(c) ==
    /\ pc[c] = "routing"
    /\ error[c] = "None"
    /\ FromBytes(ConnBuf(c)).kind = "Panic"
    /\ pc' = [pc EXCEPT ![c] = "closed"]
    /\ ret' = [ret EXCEPT ![c] = "Panic"]
    /\ UNCHANGED <<root_dir, from_bytes, req, buf_offset, error, response, out, resolved, spawned, run_vars>>

\* A method other than GET.
RespondNotImplemented(c) ==
    /\ pc[c] = "routing"
    /\ error[c] = "None"
    /\ FromBytes(ConnBuf(c)).kind = "Ok"
    /\ ~IsGet(FromBytes(ConnBuf(c)).request.method)
    /\ Respond(c, NewResponse("NotImplemented", NoBody, "None", FALSE))
    /\ UNCHANGED <<resolved, spawned>>

\* A GET: the URI is resolved, and answered with the file, by the CGI
\* subprocess, or with 404.
RespondGet(c) ==
    /\ pc[c] = "routing"
    /\ error[c] = "None"
    /\ FromBytes(ConnBuf(c)).kind = "Ok"
    /\ IsGet(FromBytes(ConnBuf(c)).request.method)
    /\ LET request == FromBytes(ConnBuf(c)).request
           found == FindFileRelative(root_dir, request.uri)
         IN  /\ resolved' = [resolved EXCEPT ![c] = [called |-> TRUE, found |-> found]]
             /\ IF found.some
                THEN IF IsCgi(request.uri)
                     THEN \E output \in CgiOutcomes(BuildCommand(request, found.path)) :
                            /\ spawned' = [spawned EXCEPT ![c] = [called |-> TRUE, output |-> output]]
                            /\ Respond(c, BuildCgiResponse(output))
                     ELSE /\ spawned' = spawned
                          /\ Respond(c, NewResponse("Ok", FileBody(found.path),
                                                    ContentTypeFromPath(request.uri), FALSE))
                ELSE /\ spawned' = spawned
                     /\ Respond(c, NewResponse("NotFound", NoBody, "None", FALSE))

\* response.send: the body stream is read to its end and the message written.
Send(c) ==
    /\ pc[c] = "sending"
    /\ out' = [out EXCEPT ![c] = Message(response[c])]
    /\ ret' = [ret EXCEPT ![c] = "Ok"]
    /\ pc' = [pc EXCEPT ![c] = "closed"]
    /\ UNCHANGED <<root_dir, from_bytes, req, buf_offset, error, response, resolved, spawned, run_vars>>

\* try!(data.read_to_end(..)) fails on a file: nothing is written.
SendBodyError(c) ==
    /\ pc[c] = "sending"
    /\ response[c].body.kind = "file"
    /\ ret' = [ret EXCEPT ![c] = "Err"]
    /\ pc' = [pc EXCEPT ![c] = "closed"]
    /\ UNCHANGED <<root_dir, from_bytes, req, buf_offset, error, response, out, resolved, spawned, run_vars>>

\* try!(target.write_all(..)) fails after part of the message went out.
SendWriteError(c) ==
    /\ pc[c] = "sending"
    /\ \E k \in 0..Min(MaxChunk, Len(Message(response[c])) - 1) :
         out' = [out EXCEPT ![c] = SubSeq(Message(response[c]), 1, k)]
    /\ ret' = [ret EXCEPT ![c] = "Err"]
    /\ pc' = [pc EXCEPT ![c] = "closed"]
    /\ UNCHANGED <<root_dir, from_bytes, req, buf_offset, error, response, resolved, spawned, run_vars>>

NoReq == Req(<<>>, <<>>)

\* signals, attempts: how many were posted and made so far; attempt_after:
\* a connection attempt arrived after a signal was posted; in_flight: the
\* connection tasks running when the listener took its signal.
NoHist == [signals |-> 0, attempts |-> 0, attempt_after |-> FALSE, in_flight |-> {}]

\* The specifications of one handle_request call and of send leave run out:
\* its listener stays where it is.
NoListener ==
    /\ lpc = "check"
    /\ shutdown = 0
    /\ backlog = 0
    /\ verbose = FALSE
    /\ sender = "held"
    /\ run_ret = "None"
    /\ hist = NoHist

\* One connection has been accepted and its task spawned; it may carry any
\* request, under any root.
Init ==
    /\ root_dir \in Roots
    /\ req \in {[c \in Conns |-> IF c = 1 THEN r ELSE NoReq] : r \in Requests}
    /\ pc = [c \in Conns |-> IF c = 1 THEN "reading" ELSE "unused"]
    /\ buf_offset = [c \in Conns |-> 0]
    /\ error = [c \in Conns |-> "None"]
    /\ response = [c \in Conns |-> NoResponse]
    /\ out = [c \in Conns |-> <<>>]
    /\ ret = [c \in Conns |-> "None"]
    /\ resolved = [c \in Conns |-> NotResolved]
    /\ spawned = [c \in Conns |-> NotSpawned]
    /\ from_bytes = [c \in Conns |-> NoCall]
    /\ NoListener

Next ==
    \E c \in Conns :
        \/ Read(c)
        \/ ReadError(c)
        \/ RespondReadLoopError(c)
        \/ RespondParseError(c)
        \/ ParsePanic(c)
        \/ RespondNotImplemented(c)
        \/ RespondGet(c)
        \/ Send(c)
        \/ SendBodyError(c)
        \/ SendWriteError(c)

Spec == Init /\ [][Next]_vars

\* Every connection task of the pool runs at once, under the root /srv: all
\* but the first were sent one of ConcGets, the first any of ConcRequests.
InitConc ==
    /\ root_dir = <<n_srv>>
    /\ req \in {r \in [Conns -> ConcRequests] : \A c \in Conns : c # 1 => r[c] \in ConcGets}
    /\ pc = [c \in Conns |-> "reading"]
    /\ buf_offset = [c \in Conns |-> 0]
    /\ error = [c \in Conns |-> "None"]
    /\ response = [c \in Conns |-> NoResponse]
    /\ out = [c \in Conns |-> <<>>]
    /\ ret = [c \in Conns |-> "None"]
    /\ resolved = [c \in Conns |-> NotResolved]
    /\ spawned = [c \in Conns |-> NotSpawned]
    /\ from_bytes = [c \in Conns |-> NoCall]
    /\ NoListener

\* The steps of the connection tasks, in any order.  No request of
\* ConcRequests fills the buffer, so the full-buffer branch is left to Spec.
NextConc ==
    \E c \in Conns :
        \/ Read(c)
        \/ ReadError(c)
        \/ RespondParseError(c)
        \/ ParsePanic(c)
        \/ RespondNotImplemented(c)
        \/ RespondGet(c)
        \/ Send(c)
        \/ SendBodyError(c)
        \/ SendWriteError(c)

SpecConc == InitConc /\ [][NextConc]_vars

\* Response::send applied to any response without the own-headers flag.
SendResponses ==
    {NewResponse(st, b, ct, FALSE) :
        st \in Statuses,
        b \in {NoBody} \cup {FileBody(p) : p \in RegularFiles \ Unreadable} \cup {CursorBody(cgi_headers)},
        ct \in ContentTypes \cup {"None"}}

InitSend ==
    /\ root_dir = <<n_srv>>
    /\ req = [c \in Conns |-> NoReq]
    /\ pc = [c \in Conns |-> IF c = 1 THEN "sending" ELSE "unused"]
    /\ buf_offset = [c \in Conns |-> 0]
    /\ error = [c \in Conns |-> "None"]
    /\ response \in {[c \in Conns |-> IF c = 1 THEN r ELSE NoResponse] : r \in SendResponses}
    /\ out = [c \in Conns |-> <<>>]
    /\ ret = [c \in Conns |-> "None"]
    /\ resolved = [c \in Conns |-> NotResolved]
    /\ spawned = [c \in Conns |-> NotSpawned]
    /\ from_bytes = [c \in Conns |-> NoCall]
    /\ NoListener

NextSend == \E c \in Conns : Send(c) \/ SendBodyError(c) \/ SendWriteError(c)

SpecSend == InitSend /\ [][NextSend]_vars

\* ------------------------------------------------------------------------
\* response.rs: Response::send, statement by statement
\* ------------------------------------------------------------------------

\* A plausible slip: the status line goes to the target before the body
\* stream is read.
SendReadToEndError_StatusLineFirst(c) ==
    /\ pc[c] = "send"
    /\ response[c].body.kind = "file"
    /\ out' = [out EXCEPT ![c] = StatusLine(response[c].status)]
    /\ ret' = [ret EXCEPT ![c] = "Err"]
    /\ pc' = [pc EXCEPT ![c] = "read_failed"]
    /\ UNCHANGED <<root_dir, from_bytes, req, buf_offset, error, response, resolved, spawned,
                   run_vars>>

\* The status line and `Content-Length: ` are put into the local buffer and
\* the body stream is read to its end into content_buf: nothing has gone to
\* the target.
SendReadToEnd(c) ==
    /\ pc[c] = "send"
    /\ pc' = [pc EXCEPT ![c] = "write_all"]
    /\ UNCHANGED <<root_dir, from_bytes, req, buf_offset, error, response, out, ret, resolved,
                   spawned, run_vars>>

\* try!(data.read_to_end(&mut content_buf)) fails (a file; a cursor cannot
\* fail): send returns the error.
SendReadToEndError(c) ==
    /\ pc[c] = "send"
    /\ response[c].body.kind = "file"
    /\ ret' = [ret EXCEPT ![c] = "Err"]
    /\ pc' = [pc EXCEPT ![c] = "read_failed"]
    /\ UNCHANGED <<root_dir, from_bytes, req, buf_offset, error, response, out, resolved,
                   spawned, run_vars>>

\* The rest of the message is put into the local buffer and
\* try!(target.write_all(&buf)) writes it; send returns Ok(()).
SendWriteAll(c) ==
    /\ pc[c] = "write_all"
    /\ out' = [out EXCEPT ![c] = Message(response[c])]
    /\ ret' = [ret EXCEPT ![c] = "Ok"]
    /\ pc' = [pc EXCEPT ![c] = "sent"]
    /\ UNCHANGED <<root_dir, from_bytes, req, buf_offset, error, response, resolved, spawned,
                   run_vars>>

\* write_all fails after k bytes of the buffer went out: send returns the
\* error.
SendWriteAllError(c) ==
    /\ pc[c] = "write_all"
    /\ \E k \in 0..Min(MaxChunk, Len(Message(response[c])) - 1) :
         out' = [out EXCEPT ![c] = SubSeq(Message(response[c]), 1, k)]
    /\ ret' = [ret EXCEPT ![c] = "Err"]
    /\ pc' = [pc EXCEPT ![c] = "write_failed"]
    /\ UNCHANGED <<root_dir, from_bytes, req, buf_offset, error, response, resolved, spawned,
                   run_vars>>

\* send has been called on a response without the own-headers flag.
InitSendSteps ==
    /\ root_dir = <<n_srv>>
    /\ req = [c \in Conns |-> NoReq]
    /\ pc = [c \in Conns |-> IF c = 1 THEN "send" ELSE "unused"]
    /\ buf_offset = [c \in Conns |-> 0]
    /\ error = [c \in Conns |-> "None"]
    /\ response \in {[c \in Conns |-> IF c = 1 THEN r ELSE NoResponse] : r \in SendResponses}
    /\ out = [c \in Conns |-> <<>>]
    /\ ret = [c \in Conns |-> "None"]
    /\ resolved = [c \in Conns |-> NotResolved]
    /\ spawned = [c \in Conns |-> NotSpawned]
    /\ from_bytes = [c \in Conns |-> NoCall]
    /\ NoListener

NextSendSteps ==
    \E c \in Conns :
        \/ SendReadToEnd(c)
        \/ SendReadToEndError(c)
        \/ SendWriteAll(c)
        \/ SendWriteAllError(c)

SpecSendSteps == InitSendSteps /\ [][NextSendSteps]_vars

\* ------------------------------------------------------------------------
\* request.rs: Request::from_bytes on a reader that delivers in pieces
\* ------------------------------------------------------------------------

\* What the clients of these calls send: requests in full, requests that stop
\* short of a request line, and request lines that cannot be accepted.
WellFormedRequests ==
    {Req(<<b_GET, t_a_txt, b_HTTP11>>, CRLF \o CRLF),
     Req(<<b_GET, <<"/", "a", "?", "x">>, b_HTTP11>>,
         CRLF \o <<"A", ":", " ", "b">> \o CRLF \o CRLF),
     Req(<<b_POST, <<"/">>, b_HTTP11>>,
         CRLF \o <<"A", ":", " ", "b">> \o CRLF \o CRLF \o <<"x", "y">>)}

ShortRequests ==
    {NoReq,
     Req(<<>>, CRLF \o CRLF),
     Req(<<b_GET>>, CRLF),
     Req(<<b_GET, t_a_txt>>, CRLF),
     Req(<<b_GET, t_a_txt>>, <<>>),
     Req(<<b_GET, b_HTTP11>>, CRLF \o CRLF)}

BadMethodRequests ==
    {Req(<<<<"H", "R", "Y">>, <<"/">>, b_HTTP11>>, CRLF \o CRLF),
     Req(<<<<"g", "e", "t">>, <<"/">>, b_HTTP11>>, CRLF \o CRLF),
     Req(<<<<>>, <<"/">>, b_HTTP11>>, CRLF \o CRLF)}

FromBytesRequests ==
    WellFormedRequests \cup ShortRequests \cup BadMethodRequests
      \cup {Req(<<b_GET, <<"/", "p">>, b_HTTP11>>, <<>>),
            Req(<<b_GET, <<>>, b_HTTP11>>, CRLF \o CRLF),
            Req(<<b_GET, <<"/">>, <<"H", "T", "T", "P", "/", "0", ".", "9">>>>, CRLF \o CRLF)}

\* A plausible slip: the reader running dry is reported as an I/O error.
FromBytesStep_ZeroReadIsIoError(data, offset, n) ==
    IF offset + n = BUF_SIZE THEN Failed("RequestTooLarge")
    ELSE IF n = 0 THEN Failed("IoError")
    ELSE ParseWindow(SubSeq(data, 1, offset + n))

\* One iteration of the loop of from_bytes, the read having returned n bytes
\* into buf[offset..]: what the iteration returns, or Continue.
FromBytesStep(data, offset, n) ==
    IF offset + n = BUF_SIZE THEN Failed("RequestTooLarge")
    ELSE IF n = 0 THEN Failed("BadRequest")
    ELSE ParseWindow(SubSeq(data, 1, offset + n))

\* One iteration of the loop: a read, and a pass over the bytes read so far.
FromBytesIteration(c) ==
    /\ pc[c] = "from_bytes"
    /\ \E n \in ReadSizes(c) :
         LET step == FromBytesStep(ReqBytes(req[c]), buf_offset[c], n)
         IN  /\ buf_offset' = [buf_offset EXCEPT ![c] = buf_offset[c] + n]
             /\ from_bytes' = [from_bytes EXCEPT ![c] = [bytes_read |-> n, result |-> step]]
             /\ pc' = [pc EXCEPT ![c] = IF step.kind = "Continue" THEN "from_bytes"
                                        ELSE "returned"]
    /\ UNCHANGED <<root_dir, req, error, response, out, ret, resolved, spawned, run_vars>>

\* try!(reader.read(..)) fails: from_bytes returns the I/O error.
FromBytesReadError(c) ==
    /\ pc[c] = "from_bytes"
    /\ from_bytes' = [from_bytes EXCEPT ![c] = [bytes_read |-> -1, result |-> Failed("IoError")]]
    /\ pc' = [pc EXCEPT ![c] = "returned"]
    /\ UNCHANGED <<root_dir, req, buf_offset, error, response, out, ret, resolved, spawned,
                   run_vars>>

\* from_bytes has been called on the reader of connection 1, with an empty
\* buffer of BUF_SIZE bytes.
InitFromBytes ==
    /\ root_dir = <<n_srv>>
    /\ req \in {[c \in Conns |-> IF c = 1 THEN r ELSE NoReq] : r \in FromBytesRequests}
    /\ pc = [c \in Conns |-> IF c = 1 THEN "from_bytes" ELSE "unused"]
    /\ buf_offset = [c \in Conns |-> 0]
    /\ error = [c \in Conns |-> "None"]
    /\ response = [c \in Conns |-> NoResponse]
    /\ out = [c \in Conns |-> <<>>]
    /\ ret = [c \in Conns |-> "None"]
    /\ resolved = [c \in Conns |-> NotResolved]
    /\ spawned = [c \in Conns |-> NotSpawned]
    /\ from_bytes = [c \in Conns |-> NoCall]
    /\ NoListener

NextFromBytes == \E c \in Conns : FromBytesIteration(c) \/ FromBytesReadError(c)

SpecFromBytes == InitFromBytes /\ [][NextFromBytes]_vars

\* ------------------------------------------------------------------------
\* server.rs: run
\* ------------------------------------------------------------------------

\* Signals the owner of the server posts to the shutdown channel.
MaxSignals == 1

\* mioco::start_threads runs its closure once, as the first coroutine of the
\* instance: the closure owns the Receiver and the listener, so there is one
\* listener coroutine whatever num_threads is.  It loops over try_recv,
\* accept and spawn.

\* run's num_threads, as its tests pass it: the number of threads mioco
\* schedules the coroutines of the instance on.  Nothing else in run reads it.
num_threads == 2

\* What a client sends on a connection run accepts: nothing (it connects and
\* shuts the connection down), or a GET.
RunRequests ==
    {NoReq,
     Req(<<b_GET, t_a_txt, b_HTTP11>>, <<"LF">>),
     Req(<<b_GET, t_missing, b_HTTP11>>, <<"LF">>)}

Running(c) == pc[c] \notin {"unused", "closed"}

\* The listener coroutine has ended in a panic.
ListenerPanicked == lpc \in {"accept_panic", "peer_addr_panic"}

\* The owner posts a signal: queue.send(()).
PostSignal ==
    /\ sender = "held"
    /\ hist.signals < MaxSignals
    /\ shutdown' = shutdown + 1
    /\ hist' = [hist EXCEPT !.signals = @ + 1]
    /\ UNCHANGED <<root_dir, from_bytes, req, pc, buf_offset, error, response, out, ret, resolved, spawned,
                   lpc, backlog, verbose, sender, run_ret>>

\* A client connects: the attempt waits in the listening socket's queue.
Connect ==
    /\ hist.attempts < MaxConns
    /\ backlog' = backlog + 1
    /\ hist' = [hist EXCEPT !.attempts = @ + 1,
                            !.attempt_after = @ \/ hist.signals > 0]
    /\ UNCHANGED <<root_dir, from_bytes, req, pc, buf_offset, error, response, out, ret, resolved, spawned,
                   lpc, shutdown, verbose, sender, run_ret>>

\* A plausible slip: the signal is taken off the channel and the loop goes on.
CheckShutdown_KeepsAccepting ==
    /\ lpc = "check"
    /\ shutdown' = IF shutdown > 0 THEN shutdown - 1 ELSE shutdown
    /\ lpc' = "accept"
    /\ UNCHANGED <<root_dir, from_bytes, req, pc, buf_offset, error, response, out, ret,
                   resolved, spawned, backlog, verbose, sender, run_ret, hist>>

\* A plausible slip: the listener waiting in accept is woken by a signal too.
CheckShutdown_WakesAccept ==
    /\ lpc \in {"check", "accept"}
    /\ IF shutdown > 0
       THEN /\ shutdown' = shutdown - 1
            /\ lpc' = "done"
            /\ hist' = [hist EXCEPT !.in_flight = {c \in Conns : Running(c)}]
       ELSE /\ lpc' = "accept"
            /\ UNCHANGED <<shutdown, hist>>
    /\ UNCHANGED <<root_dir, from_bytes, req, pc, buf_offset, error, response, out, ret,
                   resolved, spawned, backlog, verbose, sender, run_ret>>

\* `if let Ok(()) = shutdown.try_recv() { break; }`: an empty or disconnected
\* channel lets the loop go on to accept.
CheckShutdown ==
    /\ lpc = "check"
    /\ IF shutdown > 0
       THEN /\ shutdown' = shutdown - 1
            /\ lpc' = "done"
            /\ hist' = [hist EXCEPT !.in_flight = {c \in Conns : Running(c)}]
       ELSE /\ lpc' = "accept"
            /\ UNCHANGED <<shutdown, hist>>
    /\ UNCHANGED <<root_dir, from_bytes, req, pc, buf_offset, error, response, out, ret, resolved, spawned,
                   backlog, verbose, sender, run_ret>>

\* listener.accept() returns a connection, and handle_request is spawned on
\* it as a coroutine of its own.
Accept ==
    /\ lpc = "accept"
    /\ backlog > 0
    /\ \E c \in Conns :
         /\ pc[c] = "unused"
         /\ \A d \in Conns : pc[d] = "unused" => c <= d
         /\ \E r \in RunRequests : req' = [req EXCEPT ![c] = r]
         /\ pc' = [pc EXCEPT ![c] = "reading"]
    /\ backlog' = backlog - 1
    /\ lpc' = "check"
    /\ UNCHANGED <<root_dir, from_bytes, buf_offset, error, response, out, ret, resolved, spawned,
                   shutdown, verbose, sender, run_ret, hist>>

\* listener.accept() returns an error (the client reset the connection
\* before it was accepted, say): unwrap panics in the listener coroutine.
AcceptError ==
    /\ lpc = "accept"
    /\ backlog > 0
    /\ backlog' = backlog - 1
    /\ lpc' = "accept_panic"
    /\ UNCHANGED <<root_dir, from_bytes, req, pc, buf_offset, error, response, out, ret, resolved, spawned,
                   shutdown, verbose, sender, run_ret, hist>>

\* With debug logging on, debug! evaluates connection.peer_addr().unwrap():
\* the peer is gone, unwrap panics, and the connection is dropped unhandled.
PeerAddrError ==
    /\ lpc = "accept"
    /\ backlog > 0
    /\ verbose
    /\ backlog' = backlog - 1
    /\ lpc' = "peer_addr_panic"
    /\ UNCHANGED <<root_dir, from_bytes, req, pc, buf_offset, error, response, out, ret, resolved, spawned,
                   shutdown, verbose, sender, run_ret, hist>>

\* A plausible slip: run returns when the listener leaves its loop.
RunEnd_NoJoin ==
    /\ lpc = "done" \/ ListenerPanicked
    /\ run_ret = "None"
    /\ run_ret' = IF lpc = "done" THEN "Ok" ELSE "Panic"
    /\ UNCHANGED <<root_dir, from_bytes, req, pc, buf_offset, error, response, out, ret, resolved, spawned,
                   lpc, shutdown, backlog, verbose, sender, hist>>

\* mioco::start_threads returns once every coroutine of the instance has
\* finished: Ok(()) then, or, the listener having panicked, the panic of
\* the unwrap on its result.
RunEnd ==
    /\ lpc = "done" \/ ListenerPanicked
    /\ \A c \in Conns : ~Running(c)
    /\ run_ret = "None"
    /\ run_ret' = IF lpc = "done" THEN "Ok" ELSE "Panic"
    /\ UNCHANGED <<root_dir, from_bytes, req, pc, buf_offset, error, response, out, ret, resolved, spawned,
                   lpc, shutdown, backlog, verbose, sender, hist>>

\* run has started its listener; nothing has connected yet.
InitRun ==
    /\ root_dir = <<n_srv>>
    /\ req = [c \in Conns |-> NoReq]
    /\ pc = [c \in Conns |-> "unused"]
    /\ from_bytes = [c \in Conns |-> NoCall]
    /\ buf_offset = [c \in Conns |-> 0]
    /\ error = [c \in Conns |-> "None"]
    /\ response = [c \in Conns |-> NoResponse]
    /\ out = [c \in Conns |-> <<>>]
    /\ ret = [c \in Conns |-> "None"]
    /\ resolved = [c \in Conns |-> NotResolved]
    /\ spawned = [c \in Conns |-> NotSpawned]
    /\ lpc = "check"
    /\ shutdown = 0
    /\ backlog = 0
    /\ verbose \in BOOLEAN
    /\ sender = "held"
    /\ run_ret = "None"
    /\ hist = NoHist

\* A task that has finished reading is run again: it leaves its routing step.
\* Which response the step builds is RespondParseError's and RespondGet's
\* matter; this is only the scheduling of the step, stated on its position.
RoutingScheduled(c) ==
    /\ pc[c] = "routing"
    /\ pc' = [pc EXCEPT ![c] = "sending"]
    /\ UNCHANGED <<root_dir, from_bytes, req, buf_offset, error, response, out, ret,
                   resolved, spawned, run_vars>>

\* The steps a connection task takes towards its end when nothing fails:
\* its reads are answered, it is scheduled after them, its writes go through.
Progress(c) == Read(c) \/ RoutingScheduled(c) \/ Send(c)

\* No request of RunRequests fills the buffer, has a method other than GET
\* or makes the parser panic: those branches are left to Spec.
NextRun ==
    \/ PostSignal
    \/ Connect
    \/ CheckShutdown
    \/ Accept
    \/ AcceptError
    \/ PeerAddrError
    \/ RunEnd
    \/ \E c \in Conns :
        \/ Read(c)
        \/ ReadError(c)
        \/ RespondParseError(c)
        \/ RespondGet(c)
        \/ Send(c)
        \/ SendBodyError(c)
        \/ SendWriteError(c)

SpecRun == InitRun /\ [][NextRun]_vars

\* mioco schedules every coroutine that can run, and a client that has
\* connected sends its request and closes its sending side.
SpecRunFair ==
    /\ InitRun
    /\ [][NextRun]_vars
    /\ WF_vars(CheckShutdown)
    /\ WF_vars(Accept)
    /\ WF_vars(RunEnd)
    /\ \A c \in Conns : WF_vars(Progress(c))

\* main builds the channel with `let (_, recv) = mpsc::channel();`: the
\* sending half is dropped at once, so run starts with a disconnected channel
\* on which nothing has been posted and nothing can be.
InitMain ==
    /\ root_dir = <<n_srv>>
    /\ req = [c \in Conns |-> NoReq]
    /\ pc = [c \in Conns |-> "unused"]
    /\ from_bytes = [c \in Conns |-> NoCall]
    /\ buf_offset = [c \in Conns |-> 0]
    /\ error = [c \in Conns |-> "None"]
    /\ response = [c \in Conns |-> NoResponse]
    /\ out = [c \in Conns |-> <<>>]
    /\ ret = [c \in Conns |-> "None"]
    /\ resolved = [c \in Conns |-> NotResolved]
    /\ spawned = [c \in Conns |-> NotSpawned]
    /\ lpc = "check"
    /\ shutdown = 0
    /\ backlog = 0
    /\ verbose \in BOOLEAN
    /\ sender = "dropped"
    /\ run_ret = "None"
    /\ hist = NoHist

\* run as main calls it: no sender is left to post a signal.
NextMain ==
    \/ Connect
    \/ CheckShutdown
    \/ Accept
    \/ AcceptError
    \/ PeerAddrError
    \/ RunEnd
    \/ \E c \in Conns :
        \/ Read(c)
        \/ ReadError(c)
        \/ RespondParseError(c)
        \/ RespondGet(c)
        \/ Send(c)
        \/ SendBodyError(c)
        \/ SendWriteError(c)

SpecMain == InitMain /\ [][NextMain]_vars

\* ------------------------------------------------------------------------
\* Reading a message off the wire, as a client does
\* ------------------------------------------------------------------------

\* The first position at which pat occurs in msg, 0 when it does not.
FirstIndex(msg, pat) ==
    LET At == {i \in 1..(Len(msg) - Len(pat) + 1) : SubSeq(msg, i, i + Len(pat) - 1) = pat}
    IN  IF At = {} THEN 0 ELSE CHOOSE i \in At : \A j \in At : i <= j

\* The status line, with its CRLF.
StatusLineOfMsg(msg) == SubSeq(msg, 1, FirstIndex(msg, CRLF) + 1)

\* Everything after the status line.
AfterStatusLine(msg) == SubSeq(msg, FirstIndex(msg, CRLF) + 2, Len(msg))

\* The header lines (without their CRLF) between the status line and the
\* blank line, and the body after the blank line.
HeaderLinesOfMsg(msg) ==
    LET rest == AfterStatusLine(msg)
        blank == IF StartsWith(rest, CRLF) THEN 1 ELSE FirstIndex(rest, CRLF \o CRLF) + 2
        lines == Split(SubSeq(rest, 1, blank - 1), "LF")
    IN  [k \in 1..(Len(lines) - 1) |-> TrimLine(lines[k])]

BodyOfMsg(msg) ==
    LET rest == AfterStatusLine(msg)
        blank == IF StartsWith(rest, CRLF) THEN 1 ELSE FirstIndex(rest, CRLF \o CRLF) + 2
    IN  SubSeq(rest, blank + 2, Len(rest))

HasBlankLine(msg) ==
    StartsWith(AfterStatusLine(msg), CRLF) \/ FirstIndex(AfterStatusLine(msg), CRLF \o CRLF) > 0

\* The values of the headers called name (name ends in ": ").
HeaderValues(msg, name) ==
    LET lines == HeaderLinesOfMsg(msg)
    IN  {SubSeq(lines[k], Len(name) + 1, Len(lines[k])) :
            k \in {j \in 1..Len(lines) : StartsWith(lines[j], name)}}

DigitValue(ch) ==
    CASE ch = "0" -> 0 [] ch = "1" -> 1 [] ch = "2" -> 2 [] ch = "3" -> 3 [] ch = "4" -> 4
      [] ch = "5" -> 5 [] ch = "6" -> 6 [] ch = "7" -> 7 [] ch = "8" -> 8 [] ch = "9" -> 9
      [] OTHER -> -1

\* The number a decimal numeral denotes, -1 when it is no numeral.
RECURSIVE ParseDec(_)
ParseDec(ds) ==
    IF ds = <<>> THEN -1
    ELSE IF DigitValue(ds[Len(ds)]) < 0 THEN -1
    ELSE IF Len(ds) = 1 THEN DigitValue(ds[1])
    ELSE IF ParseDec(SubSeq(ds, 1, Len(ds) - 1)) < 0 THEN -1
    ELSE 10 * ParseDec(SubSeq(ds, 1, Len(ds) - 1)) + DigitValue(ds[Len(ds)])

EndsWith(s, p) == Len(s) >= Len(p) /\ SubSeq(s, Len(s) - Len(p) + 1, Len(s)) = p

msg_413 ==
    <<"H", "T", "T", "P", "/", "1", ".", "1", " ", "4", "1", "3", " ", "R", "e", "q", "u", "e",
      "s", "t", " ", "E", "n", "t", "i", "t", "y", " ", "T", "o", "o", " ", "L", "a", "r", "g",
      "e", "CR", "LF", "C", "o", "n", "t", "e", "n", "t", "-", "L", "e", "n", "g", "t", "h", ":",
      " ", "0", "CR", "LF", "CR", "LF">>

msg_501 ==
    <<"H", "T", "T", "P", "/", "1", ".", "1", " ", "5", "0", "1", " ", "N", "o", "t", " ", "I",
      "m", "p", "l", "e", "m", "e", "n", "t", "e", "d", "CR", "LF", "C", "o", "n", "t", "e", "n",
      "t", "-", "L", "e", "n", "g", "t", "h", ":", " ", "0", "CR", "LF", "CR", "LF">>

msg_505 ==
    <<"H", "T", "T", "P", "/", "1", ".", "1", " ", "5", "0", "5", " ", "H", "T", "T", "P", " ",
      "V", "e", "r", "s", "i", "o", "n", " ", "n", "o", "t", " ", "s", "u", "p", "p", "o", "r",
      "t", "e", "d", "CR", "LF", "C", "o", "n", "t", "e", "n", "t", "-", "L", "e", "n", "g", "t",
      "h", ":", " ", "0", "CR", "LF", "CR", "LF">>

msg_400_empty ==
    <<"H", "T", "T", "P", "/", "1", ".", "1", " ", "4", "0", "0", " ", "B", "a", "d", " ", "R",
      "e", "q", "u", "e", "s", "t", "CR", "LF", "C", "o", "n", "t", "e", "n", "t", "-", "L", "e",
      "n", "g", "t", "h", ":", " ", "0", "CR", "LF", "CR", "LF">>

line_200 == <<"H", "T", "T", "P", "/", "1", ".", "1", " ", "2", "0", "0", " ", "O", "K", "CR", "LF">>

line_400 ==
    <<"H", "T", "T", "P", "/", "1", ".", "1", " ", "4", "0", "0", " ", "B", "a", "d", " ", "R",
      "e", "q", "u", "e", "s", "t", "CR", "LF">>

\* The connection task of c has sent its whole response.
Answered(c) == pc[c] = "closed" /\ ret[c] = "Ok"

\* The request the task of c parsed out of its buffer.
RequestOf(c) == FromBytes(ConnBuf(c)).request

Routed(c) == resolved[c].called \/ spawned[c].called

msg_404 ==
    <<"H", "T", "T", "P", "/", "1", ".", "1", " ", "4", "0", "4", " ", "N", "o", "t", " ", "F",
      "o", "u", "n", "d", "CR", "LF", "C", "o", "n", "t", "e", "n", "t", "-", "L", "e", "n", "g",
      "t", "h", ":", " ", "0", "CR", "LF", "CR", "LF">>

\* ------------------------------------------------------------------------
\* C1
\* ------------------------------------------------------------------------

\* The canonical form of the root joined with the URI of c's request.
JoinedCanonical(c) == Canonicalize(PathJoin(root_dir, PathOf(RequestOf(c).uri)))

\* The joined and canonicalized path exists and lies outside the root.
Escapes(c) == JoinedCanonical(c).ok /\ ~StartsWith(JoinedCanonical(c).path, root_dir)

\* C1: file contents are returned only for a path inside the configured
\* root, and a GET whose joined, canonicalized path escapes the root is
\* answered 404.  The code serves `GET //etc/passwd`: the target keeps a
\* leading `/` after one is stripped, and Path::join lets an absolute path
\* replace the root.
C1_EscapeNeverServed ==
    \A c \in Conns :
        resolved[c].called =>
            /\ resolved[c].found.some => StartsWith(resolved[c].found.path, root_dir)
            /\ (Escapes(c) /\ Answered(c)) => out[c] = msg_404

\* ------------------------------------------------------------------------
\* C2
\* ------------------------------------------------------------------------

\* METHOD SP target SP HTTP/1.1 and a tail of terminated lines.
WellFormed(r) ==
    /\ Len(r.toks) = 3
    /\ r.toks[1] \in ValidMethodTokens
    /\ r.toks[2] # <<>>
    /\ ValidUtf8(r.toks[2])
    /\ r.toks[3] = b_HTTP11
    /\ r.tail \in TerminatedTails

NonGet(r) == WellFormed(r) /\ r.toks[1] # b_GET

Fits(r) == Len(ReqBytes(r)) < BUF_SIZE

\* C2 as stated: every well-formed non-GET request, whatever its target, is
\* answered exactly 501 with Content-Length: 0, and nothing is resolved or
\* spawned for it.
C2_Original ==
    \A c \in Conns :
        NonGet(req[c]) => /\ ~Routed(c)
                          /\ Answered(c) => out[c] = msg_501

\* C2 amended: every well-formed non-GET request of fewer than BUF_SIZE bytes,
\* whatever its target, is answered exactly 501 with Content-Length: 0, and
\* nothing is resolved or spawned for it.
C2_NonGetNotImplemented ==
    \A c \in Conns :
        (NonGet(req[c]) /\ Fits(req[c])) => /\ ~Routed(c)
                                            /\ Answered(c) => out[c] = msg_501

\* A POST to the CGI script has been answered 501.
C2_Witness ==
    \E c \in Conns :
        /\ Answered(c)
        /\ req[c] = Req(<<b_POST, t_cgi_ok_q, b_HTTP11>>, tail_hdr_body)
        /\ out[c] = msg_501

\* ------------------------------------------------------------------------
\* C3
\* ------------------------------------------------------------------------

\* A valid method token, a non-empty target and a third token that is not
\* exactly HTTP/1.1.
OtherVersion(r) ==
    /\ Len(r.toks) >= 3
    /\ r.toks[1] \in ValidMethodTokens
    /\ r.toks[2] # <<>>
    /\ r.toks[3] # b_HTTP11

\* C3 as stated: such a request line is answered 505 with an empty body
\* whatever the rest of the request is, never 400, and is never routed.
C3_Original ==
    \A c \in Conns :
        OtherVersion(req[c]) => /\ ~Routed(c)
                                /\ Answered(c) => out[c] = msg_505

\* C3 amended: such a request line, in a request of fewer than BUF_SIZE bytes
\* whose target is valid UTF-8, is answered 505 with an empty body whatever
\* the rest of the request is, never 400, and is never routed.
C3_OtherVersionNotSupported ==
    \A c \in Conns :
        (OtherVersion(req[c]) /\ Fits(req[c]) /\ ValidUtf8(req[c].toks[2])) =>
            /\ ~Routed(c)
            /\ Answered(c) => out[c] = msg_505

\* A GET with HTTP/1.0, headers and a body has been answered 505.
C3_Witness ==
    \E c \in Conns :
        /\ Answered(c)
        /\ req[c] = Req(<<b_GET, t_a_txt, b_HTTP10>>, tail_hdr_body)
        /\ out[c] = msg_505

\* ------------------------------------------------------------------------
\* C4
\* ------------------------------------------------------------------------

NoLineTerminator(r) == SepPos(SubSeq(ReqBytes(r), 1, BUF_SIZE), "LF") = {}

C5_ContentLengthIsBodyLength ==
    \A c \in Conns :
        (Answered(c) /\ ~response[c].own_headers) =>
            /\ HasBlankLine(out[c])
            /\ Cardinality(HeaderValues(out[c], h_ContentLength)) = 1
            /\ \A v \in HeaderValues(out[c], h_ContentLength) :
                   ParseDec(v) = Len(BodyOfMsg(out[c]))
            /\ BodyOfMsg(out[c]) = response[c].body.bytes

\* A body whose length takes three decimal digits has been sent.
C5_Witness ==
    \E c \in Conns :
        /\ Answered(c)
        /\ ~response[c].own_headers
        /\ response[c].body.some
        /\ Len(response[c].body.bytes) >= 100
        /\ HeaderValues(out[c], h_ContentLength) = {Dec(Len(response[c].body.bytes))}

\* ------------------------------------------------------------------------
\* C6
\* ------------------------------------------------------------------------

\* The target of a request line that parsed is its second token.
TargetOf(c) == req[c].toks[2]

\* C6: a `?` followed by at least one byte gives a present query, a `?` that
\* is the last byte of the target an absent one, and the URI is the part
\* before the `?` with one leading `/` removed.  The code answers
\* `/a.txt??x` with an absent query: it splits on every `?` and reads the
\* second piece only.
C6_QueryPresence ==
    \A c \in Conns :
        (response[c] # NoResponse /\ error[c] = "None"
           /\ FromBytes(ConnBuf(c)).kind = "Ok" /\ SepPos(TargetOf(c), "?") # {}) =>
            LET t == TargetOf(c)
                q == FirstIndex(t, <<"?">>)
                before == SubSeq(t, 1, q - 1)
            IN  /\ q < Len(t) => RequestOf(c).query.some
                /\ q = Len(t) => ~RequestOf(c).query.some
                /\ RequestOf(c).uri =
                     (IF StartsWith(before, <<"/">>) THEN Tail(before) ELSE before)


\* ------------------------------------------------------------------------
\* C7
\* ------------------------------------------------------------------------

C8_CgiOutcomeMapping ==
    \A c \in Conns :
        spawned[c].called =>
            LET o == spawned[c].output
                r == response[c]
            IN  /\ r.status \in {"Ok", "BadRequest"}
                /\ (o.spawned /\ o.success) =>
                     r.status = "Ok" /\ r.body.some /\ r.body.bytes = o.stdout
                /\ (o.spawned /\ ~o.success) =>
                     r.status = "BadRequest" /\ r.body.some /\ r.body.bytes = o.stdout
                /\ ~o.spawned =>
                     /\ r.status = "BadRequest" /\ ~r.body.some
                     /\ Answered(c) => out[c] = msg_400_empty

\* fail.sh exited non-zero and its output is the body of a 400.
C8_Witness ==
    \E c \in Conns :
        /\ Answered(c)
        /\ spawned[c].called
        /\ spawned[c].output = Exited(FALSE, cgi_headers \o <<"n", "o">>)
        /\ response[c].status = "BadRequest"
        /\ response[c].body.bytes = cgi_headers \o <<"n", "o">>

\* ------------------------------------------------------------------------
\* C9
\* ------------------------------------------------------------------------

\* `GET /a.txt` answered, as a client reads it.
msg_a_txt ==
    line_200
      \o <<"C", "o", "n", "t", "e", "n", "t", "-", "L", "e", "n", "g", "t", "h", ":", " ", "3", "CR", "LF">>
      \o <<"C", "o", "n", "t", "e", "n", "t", "-", "T", "y", "p", "e", ":", " ", "t", "e", "x",
           "t", "/", "p", "l", "a", "i", "n", "CR", "LF", "CR", "LF">>
      \o <<"h", "i", "LF">>

\* C9: whatever the interleaving of the connection tasks, the responses of
\* two connections that sent the same request are the same bytes, and a
\* GET of /a.txt is answered 200 with the file.
C9_ResponseDependsOnOwnRequest ==
    \A c \in Conns :
        /\ \A d \in Conns : (Answered(c) /\ Answered(d) /\ req[c] = req[d]) => out[c] = out[d]
        /\ (Answered(c) /\ req[c] = Req(<<b_GET, t_a_txt, b_HTTP11>>, <<"LF">>)) =>
               out[c] = msg_a_txt

\* Two connections that sent the same GET have both been answered.
C9_Witness ==
    \E c, d \in Conns :
        /\ c # d
        /\ Answered(c) /\ Answered(d)
        /\ req[c] = req[d]
        /\ out[c] = msg_a_txt /\ out[d] = msg_a_txt

\* ------------------------------------------------------------------------
\* C10
\* ------------------------------------------------------------------------

\* The content type the suffix table gives a URI.
SuffixType(uri) ==
    IF EndsWith(uri, <<".", "h", "t", "m">>) \/ EndsWith(uri, <<".", "h", "t", "m", "l">>)
    THEN <<"t", "e", "x", "t", "/", "h", "t", "m", "l">>
    ELSE IF EndsWith(uri, <<".", "t", "o", "m", "l">>) \/ EndsWith(uri, <<".", "t", "x", "t">>)
    THEN <<"t", "e", "x", "t", "/", "p", "l", "a", "i", "n">>
    ELSE IF EndsWith(uri, <<".", "m", "d">>)
    THEN <<"t", "e", "x", "t", "/", "m", "a", "r", "k", "d", "o", "w", "n">>
    ELSE IF EndsWith(uri, <<".", "p", "d", "f">>)
    THEN <<"a", "p", "p", "l", "i", "c", "a", "t", "i", "o", "n", "/", "p", "d", "f">>
    ELSE <<"a", "p", "p", "l", "i", "c", "a", "t", "i", "o", "n", "/", "o", "c", "t", "e", "t",
           "-", "s", "t", "r", "e", "a", "m">>

\* C10: a GET whose URI resolves to a regular file under the root and does
\* not begin with cgi-bin is answered 200 with Content-Length the file's
\* size, Content-Type from the suffix table and the file's contents as body.
C10_StaticFileResponse ==
    \A c \in Conns :
        (Answered(c) /\ resolved[c].called /\ resolved[c].found.some
           /\ StartsWith(resolved[c].found.path, root_dir)
           /\ ~StartsWith(RequestOf(c).uri, <<"c", "g", "i", "-", "b", "i", "n">>)) =>
            LET file == FileContent(resolved[c].found.path)
            IN  /\ StatusLineOfMsg(out[c]) = line_200
                /\ HeaderValues(out[c], h_ContentLength) = {Dec(Len(file))}
                /\ \A v \in HeaderValues(out[c], h_ContentLength) : ParseDec(v) = Len(file)
                /\ HeaderValues(out[c], h_ContentType) = {SuffixType(RequestOf(c).uri)}
                /\ BodyOfMsg(out[c]) = file

\* /a.txt has been served as text/plain.
C10_Witness ==
    \E c \in Conns :
        /\ Answered(c)
        /\ resolved[c].called /\ resolved[c].found.some
        /\ resolved[c].found.path = <<n_srv, n_a_txt>>
        /\ out[c] = msg_a_txt

\* ------------------------------------------------------------------------
\* C11
\* ------------------------------------------------------------------------

\* Why the URI of c's request does not resolve: the joined path cannot be
\* canonicalized (it is absent), its canonical form differs from it, it is
\* not a regular file, or it cannot be opened.
Unresolvable(c) ==
    LET joined == PathJoin(root_dir, PathOf(RequestOf(c).uri))
        canonical == JoinedCanonical(c)
    IN  \/ ~canonical.ok
        \/ canonical.path # joined.comps
        \/ canonical.path \notin RegularFiles
        \/ canonical.path \in Unreadable

\* C11: a GET whose URI does not resolve, for any of these reasons, is
\* answered exactly 404 with Content-Length: 0, no Content-Type and no body;
\* nothing is spawned for it, it never gives 500, and handle_request returns
\* no error for it except that of a failed write of the 404.
C11_UnresolvedIsNotFound ==
    \A c \in Conns :
        (resolved[c].called /\ Unresolvable(c)) =>
            /\ response[c].status = "NotFound"
            /\ ~response[c].body.some
            /\ response[c].content_type = "None"
            /\ ~response[c].own_headers
            /\ ~spawned[c].called
            /\ pc[c] \in {"sending", "closed"}
            /\ ret[c] # "Panic"
            /\ Answered(c) => out[c] = msg_404
            /\ ret[c] = "Err" => /\ Len(out[c]) < Len(msg_404)
                                 /\ out[c] = SubSeq(msg_404, 1, Len(out[c]))

\* A file that exists and cannot be opened, a directory or a path with `..`
\* has been answered 404.
C11_Witness ==
    \E c \in Conns :
        /\ Answered(c)
        /\ resolved[c].called
        /\ TargetOf(c) \in {<<"/", "s", "e", "c", "r", "e", "t", ".", "t", "x", "t">>,
                            <<"/", "p", "u", "b">>,
                            <<"/", ".", ".", "/", "a", ".", "t", "x", "t">>}
        /\ Unresolvable(c)
        /\ out[c] = msg_404

\* ------------------------------------------------------------------------
\* C12
\* ------------------------------------------------------------------------

\* C12: once a shutdown signal has been posted and, after it, a connection
\* attempt has arrived, the listener eventually leaves its accept loop and
\* run returns.  The code panics instead when the accept of that attempt
\* fails: run then ends in the panic of its unwrap and does not return.
C12_ShutdownReturns == hist.attempt_after ~> (lpc = "done" /\ run_ret = "Ok")

\* What holds of the code: after a signal and a later attempt, run returns
\* unless the listener has panicked on its accept or on the peer address.
C12_ShutdownReturnsUnlessPanic ==
    hist.attempt_after ~> ((lpc = "done" /\ run_ret = "Ok") \/ ListenerPanicked)

\* ------------------------------------------------------------------------
\* C13
\* ------------------------------------------------------------------------

msg_500 ==
    <<"H", "T", "T", "P", "/", "1", ".", "1", " ", "5", "0", "0", " ", "I",
      "n", "t", "e", "r", "n", "a", "l", " ", "S", "e", "r", "v", "e", "r",
      " ", "E", "r", "r", "o", "r", "CR", "LF", "C", "o", "n", "t", "e", "n",
      "t", "-", "L", "e", "n", "g", "t", "h", ":", " ", "0", "CR", "LF",
      "CR", "LF">>

\* handle_request has returned the error of a read: no response was built.
ReadFailed(c) == pc[c] = "closed" /\ ret[c] = "Err" /\ response[c] = NoResponse

\* C13: a connection whose read failed with an I/O error has been sent a
\* 500 Internal Server Error response with an empty body.  The code returns
\* the error from handle_request before it builds any response.
C13_ReadErrorAnswered500 == \A c \in Conns : ReadFailed(c) => out[c] = msg_500

\* ------------------------------------------------------------------------
\* C14
\* ------------------------------------------------------------------------

\* Everything handle_request holds for connection c.
ConnState(c) ==
    <<req[c], pc[c], buf_offset[c], error[c], response[c], out[c], ret[c],
      resolved[c], spawned[c]>>

\* The task of connection c has ended without its response sent in full:
\* a read, the body stream or the write failed.
TaskFailed(c) == pc[c] = "closed" /\ ret[c] = "Err"

\* What a client that sent r and was answered must have received.
ExpectedAnswer(r) ==
    IF r = NoReq THEN msg_400_empty
    ELSE IF r = Req(<<b_GET, t_missing, b_HTTP11>>, <<"LF">>) THEN msg_404
    ELSE msg_a_txt

\* A step of the task of connection c: it changes what the task holds.
TaskStep(c) == pc[c] # "unused" /\ ConnState(c)' # ConnState(c)

\* C14: a parse error, a routing error or a write error in one connection
\* task touches that connection only: no step of a task, failing or not,
\* moves the listener or changes what another task holds, and every answered
\* connection has the response of its own request, whatever befell the others.
C14_FailureStaysInConnection ==
    /\ [](\A d \in Conns : Answered(d) => out[d] = ExpectedAnswer(req[d]))
    /\ [][\A c \in Conns :
            TaskStep(c) =>
                /\ UNCHANGED <<lpc, shutdown, backlog, run_ret, root_dir>>
                /\ \A d \in Conns \ {c} : ConnState(d)' = ConnState(d)]_vars

\* One connection failed in its parse, its routing or its write, another was
\* answered with the file it asked for, and the listener is in its loop.
C14_Witness ==
    \E c, d \in Conns :
        /\ c # d
        /\ \/ TaskFailed(c)
           \/ Answered(c) /\ out[c] \in {msg_400_empty, msg_404}
        /\ Answered(d)
        /\ out[d] = msg_a_txt
        /\ lpc \in {"check", "accept"}

\* ------------------------------------------------------------------------
\* C15
\* ------------------------------------------------------------------------

\* C15: no runtime error ends the listener: after a failed accept, or a
\* failed peer-address lookup, it is still in its accept loop.  The code
\* unwraps both results, so either failure panics the listener coroutine.
C15_ListenerSurvives == ~ListenerPanicked

\* ------------------------------------------------------------------------
\* C16
\* ------------------------------------------------------------------------

\* C16: shutdown cancels no spawned connection task: run has not returned
\* while a task is running, a task that was running when the listener took
\* its signal is answered as its request asks, and it runs to its end.
C16_SpawnedTasksComplete ==
    /\ [](run_ret # "None" => \A c \in Conns : ~Running(c))
    /\ [](\A c \in hist.in_flight :
            /\ pc[c] # "unused"
            /\ Answered(c) => out[c] = ExpectedAnswer(req[c]))
    /\ \A c \in Conns : (c \in hist.in_flight) ~> (pc[c] = "closed")

\* A task was still running when the listener took its signal; it has since
\* sent the file it was asked for, and run has returned.
C16_Witness ==
    \E c \in hist.in_flight :
        /\ Answered(c)
        /\ out[c] = msg_a_txt
        /\ lpc = "done"
        /\ run_ret = "Ok"

\* ------------------------------------------------------------------------
\* C17
\* ------------------------------------------------------------------------

\* The header lines a response without the own-headers flag must carry, in
\* their order.
ExpectedHeaderLines(r) ==
    <<h_ContentLength \o Dec(Len(r.body.bytes))>>
      \o (IF r.content_type = "None" THEN <<>>
          ELSE <<h_ContentType \o ContentTypeBytes(r.content_type)>>)

\* C17: the bytes written for a response without the own-headers flag are
\* the status line, the Content-Length line (also for an empty body), the
\* Content-Type line exactly when a content type is present, the blank line
\* and the body, with nothing else before, between or after them.
C17_GeneralMessageLayout ==
    \A c \in Conns :
        (Answered(c) /\ ~response[c].own_headers) =>
            LET r == response[c]
                lines == HeaderLinesOfMsg(out[c])
            IN  /\ StatusLineOfMsg(out[c]) = StatusLine(r.status)
                /\ HasBlankLine(out[c])
                /\ lines = ExpectedHeaderLines(r)
                /\ (Len(lines) = 2) <=> (r.content_type # "None")
                /\ StartsWith(lines[1], h_ContentLength)
                /\ BodyOfMsg(out[c]) = r.body.bytes
                /\ Len(out[c]) = Len(StatusLine(r.status)) + Len(lines[1]) + 2
                                   + (IF Len(lines) = 2 THEN Len(lines[2]) + 2 ELSE 0)
                                   + 2 + Len(r.body.bytes)

\* A response with a content type and no body has been sent: its length
\* line reads 0 and its type line follows.
C17_Witness ==
    \E c \in Conns :
        /\ Answered(c)
        /\ ~response[c].own_headers
        /\ response[c].content_type = "Html"
        /\ response[c].body.bytes = <<>>
        /\ HeaderLinesOfMsg(out[c]) =
             <<h_ContentLength \o <<"0">>, h_ContentType \o <<"t", "e", "x", "t", "/", "h", "t", "m", "l">> >>

\* ------------------------------------------------------------------------
\* C18
\* ------------------------------------------------------------------------

\* What from_bytes returns when the reader delivers all of r in one read.
OneRead(r) == FromBytes(ReqBytes(r))

\* The call on connection c has returned, and not with the error of a read.
Returned(c) == pc[c] = "returned" /\ from_bytes[c].result.err # "IoError"

\* C18: however the bytes of a well-formed request are split across reads,
\* from_bytes returns the Request it returns when they arrive in one read.
\* The code passes over every window it has read: a window that ends inside
\* the version token returns UnsupportedHttpVersion, one that ends after
\* `GET ` returns Parsing, one that ends inside the header block returns a
\* Request with fewer header lines, and one that ends before the line
\* terminator panics on the body slice.
C18_SplitReadsSameRequest ==
    \A c \in Conns :
        (Returned(c) /\ req[c] \in WellFormedRequests) =>
            from_bytes[c].result = OneRead(req[c])

\* ------------------------------------------------------------------------
\* C19
\* ------------------------------------------------------------------------

\* The window holds a first token ended by a space, and the token is not one
\* of the eight method literals.
BadMethodSeen(w) ==
    /\ \E i \in 1..Len(w) : w[i] = " "
    /\ \A i \in 1..FirstIndex(w, <<" ">>) : w[i] # "LF"
    /\ SubSeq(w, 1, FirstIndex(w, <<" ">>) - 1) \notin ValidMethodTokens

\* C19: once the bytes read hold a first token that is no method literal,
\* from_bytes has returned Parsing and reads no more.  The code takes the
\* `continue` of its loop on such a token and reads again.
C19_BadMethodFailsAtOnce ==
    \A c \in Conns :
        BadMethodSeen(ConnBuf(c)) =>
            /\ pc[c] = "returned"
            /\ from_bytes[c].result = Failed("Parsing")

\* ------------------------------------------------------------------------
\* C20
\* ------------------------------------------------------------------------

\* C20: a read that returns zero bytes ends from_bytes with BadRequest, and a
\* client that closes before it has sent three tokens of a request line gets
\* no Request out of from_bytes, however its bytes were delivered: the error
\* returned is answered 400, and nothing is there to route.
C20_ZeroReadIsBadRequest ==
    \A c \in Conns :
        pc[c] = "returned" =>
            /\ from_bytes[c].bytes_read = 0 => from_bytes[c].result = Failed("BadRequest")
            /\ (Returned(c) /\ req[c] \in ShortRequests) =>
                   /\ from_bytes[c].result.kind = "Err"
                   /\ ErrorStatus(from_bytes[c].result.err) = "BadRequest"

\* `GET /a.txt` and a line terminator arrived in pieces, then the reader ran
\* dry: from_bytes returned BadRequest.
C20_Witness ==
    \E c \in Conns :
        /\ pc[c] = "returned"
        /\ req[c] = Req(<<b_GET, t_a_txt>>, CRLF)
        /\ buf_offset[c] = Len(ReqBytes(req[c]))
        /\ from_bytes[c] = [bytes_read |-> 0, result |-> Failed("BadRequest")]

\* ------------------------------------------------------------------------
\* C21
\* ------------------------------------------------------------------------

\* The bytes of s after its first line terminator.
AfterFirstLine(s) == SubSeq(s, FirstIndex(s, <<"LF">>) + 1, Len(s))

\* The first line of s, without its terminator (`\n`, or `\r\n`).
FirstLine(s) == TrimLine(SubSeq(s, 1, FirstIndex(s, <<"LF">>) - 1))

\* s, which starts at the start of a line, holds a terminated empty line.
RECURSIVE HasEmptyLine(_)
HasEmptyLine(s) ==
    /\ FirstIndex(s, <<"LF">>) > 0
    /\ FirstLine(s) = <<>> \/ HasEmptyLine(AfterFirstLine(s))

\* The lines of s before its first empty line, and the bytes after the
\* terminator of that line.
RECURSIVE LinesBeforeEmpty(_)
LinesBeforeEmpty(s) ==
    IF FirstLine(s) = <<>> THEN <<>>
    ELSE <<FirstLine(s)>> \o LinesBeforeEmpty(AfterFirstLine(s))

RECURSIVE BytesAfterEmpty(_)
BytesAfterEmpty(s) ==
    IF FirstLine(s) = <<>> THEN AfterFirstLine(s)
    ELSE BytesAfterEmpty(AfterFirstLine(s))

\* C21: for a request that parsed, with `\n` or `\r\n` line endings and an
\* empty line after its headers, header_lines are the lines between the
\* request line and the first empty line, and body is the bytes after the
\* terminator of that empty line.  The code does not count the `\n` of an
\* empty line that has no `\r`: with `\n` endings the body starts with it.
C21_HeadersAndBody ==
    \A c \in Conns :
        (response[c] # NoResponse /\ error[c] = "None"
           /\ FromBytes(ConnBuf(c)).kind = "Ok"
           /\ ValidUtf8(ConnBuf(c))
           /\ HasEmptyLine(AfterFirstLine(ConnBuf(c)))) =>
            /\ RequestOf(c).header_lines = LinesBeforeEmpty(AfterFirstLine(ConnBuf(c)))
            /\ RequestOf(c).body = BytesAfterEmpty(AfterFirstLine(ConnBuf(c)))

\* What holds of the code: the same with `\r\n` endings throughout.
C21_HeadersAndBodyCrLf ==
    \A c \in Conns :
        (response[c] # NoResponse /\ error[c] = "None"
           /\ FromBytes(ConnBuf(c)).kind = "Ok"
           /\ ValidUtf8(ConnBuf(c))
           /\ HasEmptyLine(AfterFirstLine(ConnBuf(c)))
           /\ \A i \in 1..Len(ConnBuf(c)) :
                  ConnBuf(c)[i] = "LF" => (i > 1 /\ ConnBuf(c)[i - 1] = "CR")) =>
            /\ RequestOf(c).header_lines = LinesBeforeEmpty(AfterFirstLine(ConnBuf(c)))
            /\ RequestOf(c).body = BytesAfterEmpty(AfterFirstLine(ConnBuf(c)))

\* ------------------------------------------------------------------------
\* C22
\* ------------------------------------------------------------------------

\* C22: a target with more than one `?` is split at the first `?` only: the
\* URI is what precedes it, less one leading `/`, and the query is all that
\* follows it.  The code splits on every `?` and takes the second piece as
\* the query, so what follows a second `?` is lost.
C22_SplitAtFirstQuestionMark ==
    \A c \in Conns :
        (response[c] # NoResponse /\ error[c] = "None"
           /\ FromBytes(ConnBuf(c)).kind = "Ok"
           /\ Cardinality(SepPos(TargetOf(c), "?")) > 1) =>
            LET t == TargetOf(c)
                q == FirstIndex(t, <<"?">>)
                before == SubSeq(t, 1, q - 1)
            IN  /\ RequestOf(c).uri =
                     (IF StartsWith(before, <<"/">>) THEN Tail(before) ELSE before)
                /\ RequestOf(c).query = Some(SubSeq(t, q + 1, Len(t)))

\* ------------------------------------------------------------------------
\* C23
\* ------------------------------------------------------------------------

\* The bytes of r are a complete request: the parser accepts them as they are.
CompleteRequest(r) == ParseWindow(ReqBytes(r)).kind = "Ok"

\* C23: a complete request that fits in the buffer, one of exactly BUF_SIZE
\* bytes included, is not answered 413.  The code takes the buffer for
\* overfull as soon as the bytes read number BUF_SIZE, without parsing them.
C23_FittingRequestNotTooLarge ==
    \A c \in Conns :
        (response[c] # NoResponse /\ CompleteRequest(req[c])
           /\ Len(ReqBytes(req[c])) <= BUF_SIZE) =>
            response[c].status # "RequestEntityTooLarge"

\* What holds of the code: the same for requests of fewer than BUF_SIZE bytes.
C23_ShorterRequestNotTooLarge ==
    \A c \in Conns :
        (response[c] # NoResponse /\ CompleteRequest(req[c])
           /\ Len(ReqBytes(req[c])) < BUF_SIZE) =>
            /\ response[c].status # "RequestEntityTooLarge"
            /\ error[c] = "None"

\* ------------------------------------------------------------------------
\* C24
\* ------------------------------------------------------------------------

\* A connection attempt is taken off the listening socket: accept returned.
AcceptReturns == backlog' < backlog

\* A connection task is spawned.
Spawns == \E c \in Conns : pc[c] = "unused" /\ pc'[c] # "unused"

\* C24: the listener comes to an accept call only from a check of the
\* channel that found it empty, and it is back at the check after every
\* accept; a check that finds a signal takes it and ends the loop, and from
\* then on the listener neither accepts nor spawns.
C24_CheckBeforeEachAccept ==
    /\ [][(lpc' = "accept" /\ lpc # "accept") => (lpc = "check" /\ shutdown = 0)]_vars
    /\ [][AcceptReturns => (lpc = "accept" /\ lpc' # "accept")]_vars
    /\ [][Spawns => (AcceptReturns /\ lpc' = "check")]_vars
    /\ [][shutdown' < shutdown => (lpc = "check" /\ lpc' = "done")]_vars
    /\ [][lpc = "done" => (lpc' = "done" /\ ~AcceptReturns /\ ~Spawns)]_vars

\* The listener took its signal after it had spawned a task, and an attempt
\* made since then waits unaccepted.
C24_Witness ==
    /\ lpc = "done"
    /\ hist.signals > 0 /\ shutdown = 0
    /\ backlog > 0
    /\ \E c \in Conns : pc[c] # "unused"
    /\ \E c \in Conns : pc[c] = "unused"

\* ------------------------------------------------------------------------
\* C25
\* ------------------------------------------------------------------------

\* The signals taken off the channel so far.
SignalsConsumed == hist.signals - shutdown

\* C25: run returns only after num_threads signals, one for each listener
\* task, have been posted and consumed.  The code has one listener coroutine,
\* the closure given to start_threads, for any num_threads: run returns as
\* soon as that one has consumed one signal.
C25_RunNeedsSignalPerThread == run_ret = "Ok" => SignalsConsumed >= num_threads

\* What holds of the code: run returns Ok after its listener took one signal.
C25_RunReturnsAfterOneSignal == run_ret = "Ok" => (lpc = "done" /\ SignalsConsumed = 1)

\* ------------------------------------------------------------------------
\* C26
\* ------------------------------------------------------------------------

\* C26: a listener waiting in accept does not see a signal posted meanwhile:
\* it leaves accept only on a connection attempt, so as long as none is made
\* it stays in accept, whatever waits in the channel, and run has not
\* returned while it is there.
C26_BlockedAcceptMissesSignal ==
    /\ [](lpc \in {"check", "accept"} => run_ret = "None")
    /\ [][(lpc = "accept" /\ backlog = 0 /\ backlog' = 0) => lpc' = "accept"]_vars
    /\ [][(lpc = "accept" /\ lpc' # "accept") => backlog > 0]_vars
    /\ [][(lpc = "accept" /\ shutdown' # shutdown) => shutdown' > shutdown]_vars

\* A signal waits in the channel, the listener waits in accept, no attempt
\* has been made since the signal and none is pending; every task has ended.
C26_Witness ==
    /\ lpc = "accept"
    /\ shutdown > 0
    /\ backlog = 0
    /\ ~hist.attempt_after
    /\ run_ret = "None"
    /\ \E c \in Conns : pc[c] = "closed"
    /\ \A c \in Conns : ~Running(c)

\* ------------------------------------------------------------------------
\* C27
\* ------------------------------------------------------------------------

\* Reading -> Routing -> Responding -> Closed, and Reading -> Closed.
TaskMoves ==
    {<<"reading", "routing">>, <<"routing", "sending">>, <<"sending", "closed">>,
     <<"reading", "closed">>}

\* What every step does to the task of c, whichever way the task ends: it
\* reads only while reading, each read that does not end the loop adds to
\* the buffer offset, it leaves reading for closed only on a failed read,
\* and what it has written stays written.
TaskStepsInOrder(c) ==
    /\ pc[c] # "reading" => buf_offset'[c] = buf_offset[c]
    /\ (pc[c] = "reading" /\ pc'[c] = "reading") =>
           (buf_offset'[c] = buf_offset[c] \/ buf_offset[c] < buf_offset'[c])
    /\ (pc[c] = "reading" /\ pc'[c] = "reading" /\ buf_offset'[c] = buf_offset[c]) =>
           UNCHANGED vars
    /\ buf_offset'[c] <= BUF_SIZE
    /\ (pc[c] = "reading" /\ pc'[c] = "closed") => ret'[c] = "Err"
    /\ pc[c] # "sending" => out'[c] = out[c]
    /\ (pc[c] = "sending" /\ pc'[c] = "closed" /\ ret'[c] = "Ok") =>
           out'[c] = Message(response[c])

\* C27: a connection task goes from reading to routing to responding to
\* closed, or from reading to closed on a failed read; it does not read once
\* routing has begun, writes at most one response, and has written exactly
\* one when it ends without a failed I/O call.  The code also ends a task in
\* its routing step, with nothing written and no I/O call failed, when the
\* parser panics on its body slice.
C27_TaskStateMachine ==
    /\ [](\A c \in Conns :
            (pc[c] = "closed" /\ ret[c] # "Err") =>
                (response[c] # NoResponse /\ out[c] = Message(response[c])))
    /\ [][\A c \in Conns :
            /\ pc'[c] # pc[c] => <<pc[c], pc'[c]>> \in TaskMoves
            /\ TaskStepsInOrder(c)]_vars

\* What holds of the code: the same, but for the task that ends in a panic.
C27_TaskStateMachineUnlessPanic ==
    /\ [](\A c \in Conns :
            (pc[c] = "closed" /\ ret[c] = "Ok") =>
                (response[c] # NoResponse /\ out[c] = Message(response[c])))
    /\ [][\A c \in Conns :
            /\ pc'[c] # pc[c] =>
                  \/ <<pc[c], pc'[c]>> \in TaskMoves
                  \/ <<pc[c], pc'[c]>> = <<"routing", "closed">> /\ ret'[c] = "Panic"
            /\ TaskStepsInOrder(c)]_vars

\* ------------------------------------------------------------------------
\* C28
\* ------------------------------------------------------------------------

\* The request of c is a GET of a URI that begins with `cgi-bin` and names a
\* regular file under the root that can be opened.
CgiRequest(c) ==
    /\ error[c] = "None"
    /\ FromBytes(ConnBuf(c)).kind = "Ok"
    /\ RequestOf(c).method = "Get"
    /\ StartsWith(RequestOf(c).uri, <<"c", "g", "i", "-", "b", "i", "n">>)
    /\ LET path == root_dir \o Split(RequestOf(c).uri, "/")
       IN  path \in RegularFiles \ Unreadable

\* C28: a subprocess is spawned only for a GET whose URI begins with
\* `cgi-bin` and resolved to a regular file under the root; for every such
\* request the file is given to the gateway: the body is what the subprocess
\* wrote (none when it could not be started), never the bytes of the file.
C28_CgiOnlyForGetUnderCgiBin ==
    \A c \in Conns :
        /\ spawned[c].called =>
             /\ CgiRequest(c)
             /\ resolved[c].called /\ resolved[c].found.some
             /\ resolved[c].found.path \in RegularFiles
             /\ StartsWith(resolved[c].found.path, root_dir)
             /\ spawned[c].output \in CgiOutcomes(BuildCommand(RequestOf(c), resolved[c].found.path))
        /\ (response[c] # NoResponse /\ CgiRequest(c)) =>
             /\ spawned[c].called
             /\ response[c].body.bytes = spawned[c].output.stdout
             /\ response[c].body.some = spawned[c].output.spawned
             /\ response[c].body.kind # "file"
             /\ response[c].body.bytes # FileContent(resolved[c].found.path)
             /\ (Answered(c) /\ spawned[c].output.spawned) =>
                    AfterStatusLine(out[c]) = spawned[c].output.stdout
             /\ (Answered(c) /\ ~spawned[c].output.spawned) => out[c] = msg_400_empty

\* A GET of cgi-bin/data, a file that is no executable, has been answered:
\* the gateway was tried, and the bytes of the file were not sent.
C28_Witness ==
    \E c \in Conns :
        /\ Answered(c)
        /\ CgiRequest(c)
        /\ resolved[c].found.path = <<n_srv, n_cgi_bin, n_data>>
        /\ spawned[c].called
        /\ ~spawned[c].output.spawned
        /\ out[c] = msg_400_empty

\* ------------------------------------------------------------------------
\* C29
\* ------------------------------------------------------------------------

\* C29: send writes nothing before the body stream has been read to its
\* end, and writes in one call, which either puts out the whole message or
\* fails; when the read of the body stream fails send returns the error with
\* not a byte written.
C29_WriteAfterBodyRead ==
    /\ [](\A c \in Conns :
            /\ pc[c] \in {"send", "write_all", "read_failed"} => out[c] = <<>>
            /\ pc[c] = "read_failed" => ret[c] = "Err"
            /\ pc[c] = "sent" => (ret[c] = "Ok" /\ out[c] = Message(response[c])))
    /\ [][\A c \in Conns :
            out'[c] # out[c] =>
                /\ pc[c] = "write_all"
                /\ pc'[c] \in {"sent", "write_failed"}
                /\ out[c] = <<>>
                /\ StartsWith(Message(response[c]), out'[c])]_vars
    /\ [][\A c \in Conns : pc[c] \in {"sent", "write_failed", "read_failed"} =>
                               (pc'[c] = pc[c] /\ out'[c] = out[c])]_vars

\* The read of a file that was to be the body failed: send has returned the
\* error and the target has received nothing.
C29_Witness ==
    \E c \in Conns :
        /\ pc[c] = "read_failed"
        /\ response[c].body.kind = "file"
        /\ response[c].status = "Ok"
        /\ ret[c] = "Err"
        /\ out[c] = <<>>

\* ------------------------------------------------------------------------
\* C30
\* ------------------------------------------------------------------------

\* C30: the body start from_bytes computes is at most the number of bytes
\* read, so the body slice is a range of the buffer and the call does not
\* panic, a last line without `\n` included.  The code counts a `\n` for
\* every line that is not empty, the unterminated last one as well: for the
\* bare `GET /p HTTP/1.1` body_start is one more than the bytes read and the
\* slice panics.
C30_BodyStartWithinBytesRead ==
    \A c \in Conns : from_bytes[c].result.kind # "Panic"

\* ------------------------------------------------------------------------
\* C31
\* ------------------------------------------------------------------------

\* C31: with the sending half of the shutdown channel dropped and nothing
\* posted, the check of the channel never succeeds, the listener stays in
\* its accept loop for good and run never returns.  In the code the loop
\* also ends, without any signal, when an accept or a peer-address lookup
\* fails: the listener panics and run ends in that panic.
C31_DisconnectedKeepsAccepting ==
    (sender = "dropped" /\ hist.signals = 0)
        => (lpc \in {"check", "accept"} /\ run_ret = "None")

\* What holds of the code: a disconnected channel never makes the check
\* succeed, so the listener never breaks out of its loop and run never
\* returns Ok; the loop ends only in a panic of the listener.
C31_DisconnectedNeverBreaks ==
    (sender = "dropped" /\ hist.signals = 0)
        => /\ shutdown = 0
           /\ lpc # "done"
           /\ run_ret # "Ok"
           /\ (lpc \in {"check", "accept"} \/ ListenerPanicked)

=============================================================================
